---- MODULE Spec2Model ----
(***************************************************************************)
(* PulseGo: the jitter sampler (internal/metrics/jitter.go), the health    *)
(* scorer (internal/metrics, CalculateHealthScore), the watchdog           *)
(* (internal/watchdog/watchdog.go) and the throughput engine               *)
(* (internal/engine/engine.go).                                            *)
(*                                                                         *)
(* Durations are time.Duration values: integers counting nanoseconds.      *)
(* Each component has its own variables and its own specification          *)
(* (SpecJitter, SpecHealth, SpecWatch, SpecAlertLog, SpecStandard,         *)
(* SpecP2P, SpecBloat, SpecStress); a specification leaves the other       *)
(* components idle.                                                        *)
(***************************************************************************)
EXTENDS Integers, Sequences, FiniteSets, TLC

VARIABLES
    \* --- metrics.MeasureJitter: one call
    jpc,          \* "idle" | "loop" | "wait" | "done"
    jsamples,     \* the samples argument
    ji,           \* the loop index i
    latencies,    \* the latencies slice, in capture order (sorted at the end)
    jctxDone,     \* ctx.Done() has fired
    jattempted,   \* number of probes attempted so far
    jcaptured,    \* history: the successful latencies in the order captured
    jobserved,    \* history: a select of lines 40-44 took the ctx.Done case
    jresult,      \* the returned *JitterResult, NoValue before the return
    \* --- metrics.CalculateHealthScore: one call
    hpc,          \* "idle" | "call" | "done"
    hin,          \* the arguments
    hout,         \* the returned *HealthScore, NoValue before the return
    \* --- metrics.MeasureBufferbloat: one call
    bpc,          \* "idle" | "probe_idle" | "burst" | "probe_load" | "done"
    bctxDone,     \* the ctx given to the call is done
    idleLatency,  \* the first measureSingleLatency result
    underLoadLatency, \* the second measureSingleLatency result
    burstStarted, \* number of go statements executed by the loop of line 26
    burstWg,      \* the WaitGroup counter
    bresult,      \* the value returned, NoValue before the return
    bhist,        \* history of the burst: see BHistInit
    \* --- watchdog.Watcher
    wcfg,         \* Watcher.Config
    stats,        \* Watcher.Stats
    alerts,       \* Watcher.Alerts
    running,      \* Watcher.running
    stopCloses,   \* number of close(w.stopChan) calls executed
    wpc,          \* where each Start call is: see TickPcs
    wstarts,      \* number of Start calls made
    tickerC,      \* per Start call: ticker.C holds a tick (capacity 1)
    wctxDone,     \* the ctx given to Start is done
    sigPending,   \* per Start call: sigChan holds a signal
    activeTicks,  \* number of tick calls that have begun and not returned
    wtick,        \* per Start call: the local variables of its tick
    whist,        \* history of the ticks: see WHistInit
    \* --- engine.runStandard / engine.RunP2P: one call
    emode,        \* "idle" | "standard" | "p2p"
    en,           \* cfg.Downloads, or len(targets)
    epc,          \* the calling goroutine's position
    spawned,      \* number of go statements executed
    wk,           \* the worker goroutines: index -> [pc, bytes]
    mu,           \* the mutex: 0 free, i held by worker i
    totalBytes,   \* the shared byte counter
    errors,       \* the shared error counter
    wg,           \* the WaitGroup counter
    ectxDone,     \* the caller's ctx is done
    waiter,       \* RunP2P's goroutine around wg.Wait: "none" | "waiting" | "closed"
    bitsBytes,    \* the totalBytes value read for bits (RunP2P line 274)
    elapsed,      \* time.Since(start) (lines 96 and 269-272)
    eret,         \* the value returned, NoValue before the return
    ehist,        \* history of the call: see EHistInit
    \* --- engine.runStress: one call
    spc,          \* the calling goroutine: "idle" | "spawn" | "read" | "returned"
    sdownloads,   \* cfg.Downloads
    connections,  \* the number of workers
    surlBad,      \* cfg.URL is one NewRequestWithContext rejects
    sctxDone,     \* the caller's ctx is done
    stressDone,   \* stressCtx is done: cfg.Timeout has elapsed since line 129
    sstarted,     \* number of go statements executed
    sat,          \* how many workers are at each place: see SAtInit
    stressBytes,  \* totalBytes of runStress
    stressErrors, \* errors of runStress
    stressWg,     \* the WaitGroup counter
    sresult,      \* the value returned, NoValue before the return
    shist,        \* history of the call: see SHistInit
    \* --- cmd/pulsego main: a one-shot run
    mpc,          \* "idle" | "latency" | "run" | "simple" | "jitter" |
                  \* "bloat" | "score" | "output" | "ended"
    mflags,       \* the flags: format, stress, jitter, bufferbloat, simple
    latencyResult, \* main's latencyResult, NoValue for nil
    mresult,      \* main's result (of engine.Run), NoValue for nil
    jitterResult, \* main's jitterResult, NoValue for nil
    bbResult,     \* main's bbResult, NoValue for nil
    mhealth,      \* main's health, NoValue before line 117
    mout,         \* the arguments of the formatter called, NoValue before
    mend          \* how the process ended: see MRunning

jvars == <<jpc, jsamples, ji, latencies, jctxDone, jattempted, jcaptured,
           jobserved, jresult>>
hvars == <<hpc, hin, hout>>
bvars == <<bpc, bctxDone, idleLatency, underLoadLatency, burstStarted, burstWg,
           bresult, bhist>>
wvars == <<wcfg, stats, alerts, running, stopCloses, wpc, wstarts, tickerC,
           wctxDone, sigPending, activeTicks, wtick, whist>>
evars == <<emode, en, epc, spawned, wk, mu, totalBytes, errors, wg, ectxDone,
           waiter, bitsBytes, elapsed, eret, ehist>>
svars == <<spc, sdownloads, connections, surlBad, sctxDone, stressDone,
           sstarted, sat, stressBytes, stressErrors, stressWg, sresult, shist>>
mvars == <<mpc, mflags, latencyResult, mresult, jitterResult, bbResult, mhealth,
           mout, mend>>
vars == <<jvars, hvars, bvars, wvars, evars, svars, mvars>>

NoValue == [kind |-> "none"]

\* time.Millisecond, in nanoseconds
Millisecond == 1000 * 1000

RECURSIVE SumSeq(_)
SumSeq(s) == IF s = <<>> THEN 0 ELSE Head(s) + SumSeq(Tail(s))

\* the last n elements of s (all of s when it is shorter)
LastN(s, n) == IF Len(s) <= n THEN s ELSE SubSeq(s, Len(s) - n + 1, Len(s))

-----------------------------------------------------------------------------
(* metrics.MeasureJitter                                                   *)

\* bound: the largest samples argument
MaxSamples == 4

\* the round-trip times a probe can take, in nanoseconds
ProbeLatencies == {10, 11, 12, 15}

\* sort.Slice(latencies, less): insertion of x into an ascending sequence
RECURSIVE InsertSorted(_, _)
InsertSorted(x, s) ==
    IF s = <<>> THEN <<x>>
    ELSE IF x <= Head(s) THEN <<x>> \o s
    ELSE <<Head(s)>> \o InsertSorted(x, Tail(s))

RECURSIVE SortAsc(_)
SortAsc(s) == IF s = <<>> THEN <<>> ELSE InsertSorted(Head(s), SortAsc(Tail(s)))

\* varianceSum of lines 66-70: the sum of the squared differences of
\* neighbouring elements of s
RECURSIVE SquaredDiffSum(_)
SquaredDiffSum(s) ==
    IF Len(s) < 2 THEN 0
    ELSE (s[2] - s[1]) * (s[2] - s[1]) + SquaredDiffSum(Tail(s))

\* time.Duration(math.Sqrt(sum / float64(k))): the square root of the real
\* quotient, truncated to a whole number of nanoseconds
SqrtOfMean(sum, k) ==
    CHOOSE r \in 0..sum : r * r * k <= sum /\ (r + 1) * (r + 1) * k > sum

\* the share of the probes that succeeded, in place of the share that failed
PacketLossOfSucceeded(samples, succeeded) ==
    [num |-> succeeded * 100, den |-> samples]

\* float64(samples-len(latencies)) / float64(samples) * 100, kept as the
\* fraction num/den; den = 0 is the NaN of 0.0/0.0
PacketLoss(samples, succeeded) ==
    [num |-> (samples - succeeded) * 100, den |-> samples]

\* the result whose short form (fewer than 2 latencies) leaves PacketLoss at
\* its zero value
JitterResultOfShortUnset(samples, captured) ==
    IF Len(captured) < 2
    THEN [kind |-> "result", Jitter |-> 0, MinLatency |-> 0, MaxLatency |-> 0,
          AvgLatency |-> 0, Samples |-> Len(captured),
          PacketLoss |-> [num |-> 0, den |-> 1]]
    ELSE LET sorted == SortAsc(captured)
             n == Len(sorted)
         IN [kind |-> "result",
             Jitter |-> SqrtOfMean(SquaredDiffSum(sorted), n - 1),
             MinLatency |-> sorted[1], MaxLatency |-> sorted[n],
             AvgLatency |-> SumSeq(sorted) \div n, Samples |-> n,
             PacketLoss |-> PacketLoss(samples, n)]

\* lines 48-80: the result computed from the captured latencies
JitterResultOf(samples, captured) ==
    IF Len(captured) < 2
    THEN [kind |-> "result", Jitter |-> 0, MinLatency |-> 0, MaxLatency |-> 0,
          AvgLatency |-> 0, Samples |-> Len(captured),
          PacketLoss |-> PacketLoss(samples, Len(captured))]
    ELSE LET sorted == SortAsc(captured)
             n == Len(sorted)
         IN [kind |-> "result",
             Jitter |-> SqrtOfMean(SquaredDiffSum(sorted), n - 1),
             MinLatency |-> sorted[1], MaxLatency |-> sorted[n],
             AvgLatency |-> SumSeq(sorted) \div n, Samples |-> n,
             PacketLoss |-> PacketLoss(samples, n)]

JitterIdle ==
    /\ jpc = "idle" /\ jsamples = 0 /\ ji = 0 /\ latencies = <<>>
    /\ jctxDone = FALSE /\ jattempted = 0 /\ jcaptured = <<>>
    /\ jobserved = FALSE /\ jresult = NoValue

\* the call MeasureJitter(ctx, url, samples, interval), lines 20-22
JitterInit ==
    /\ jpc = "loop" /\ jsamples \in 0..MaxSamples /\ ji = 0 /\ latencies = <<>>
    /\ jctxDone \in BOOLEAN /\ jattempted = 0 /\ jcaptured = <<>>
    /\ jobserved = FALSE /\ jresult = NoValue

\* the caller's context is cancelled or its deadline passes
JCtxDone ==
    /\ jpc \in {"loop", "wait"} /\ ~jctxDone
    /\ jctxDone' = TRUE
    /\ UNCHANGED <<jpc, jsamples, ji, latencies, jattempted, jcaptured,
                   jobserved, jresult>>
    /\ UNCHANGED <<hvars, bvars, wvars, evars, svars, mvars>>

\* one loop iteration whose client.Do fails (lines 24-34); a request on a
\* context that is done always fails
JProbeFail ==
    /\ jpc = "loop" /\ ji < jsamples
    /\ ji' = ji + 1 /\ jattempted' = jattempted + 1
    /\ UNCHANGED <<jpc, jsamples, latencies, jctxDone, jcaptured, jobserved,
                   jresult>>
    /\ UNCHANGED <<hvars, bvars, wvars, evars, svars, mvars>>

\* a loop iteration whose probe succeeds (lines 24-39): the latency is
\* appended; every iteration but the last goes on to the select of line 40
JProbeOk ==
    /\ jpc = "loop" /\ ji < jsamples /\ ~jctxDone
    /\ \E l \in ProbeLatencies :
          latencies' = Append(latencies, l) /\ jcaptured' = Append(jcaptured, l)
    /\ jattempted' = jattempted + 1
    /\ IF ji < jsamples - 1
       THEN jpc' = "wait" /\ ji' = ji
       ELSE jpc' = "loop" /\ ji' = ji + 1
    /\ UNCHANGED <<jsamples, jctxDone, jobserved, jresult>>
    /\ UNCHANGED <<hvars, bvars, wvars, evars, svars, mvars>>

\* lines 40-44, case <-time.After(interval): the loop goes on with i+1
JWaitInterval ==
    /\ jpc = "wait"
    /\ jpc' = "loop" /\ ji' = ji + 1
    /\ UNCHANGED <<jsamples, latencies, jctxDone, jattempted, jcaptured,
                   jobserved, jresult>>
    /\ UNCHANGED <<hvars, bvars, wvars, evars, svars, mvars>>

\* lines 40-44, case <-ctx.Done(): the break leaves the select, not the for
\* loop, which goes on with i+1
JWaitCtx ==
    /\ jpc = "wait" /\ jctxDone
    /\ jobserved' = TRUE
    /\ jpc' = "loop" /\ ji' = ji + 1
    /\ UNCHANGED <<jsamples, latencies, jctxDone, jattempted, jcaptured,
                   jresult>>
    /\ UNCHANGED <<hvars, bvars, wvars, evars, svars, mvars>>

\* lines 48-80: the loop is over, the result is computed and returned
JFinish ==
    /\ jpc = "loop" /\ ji = jsamples
    /\ jresult' = JitterResultOf(jsamples, latencies)
    /\ latencies' = IF Len(latencies) < 2 THEN latencies ELSE SortAsc(latencies)
    /\ jpc' = "done"
    /\ UNCHANGED <<jsamples, ji, jctxDone, jattempted, jcaptured, jobserved>>
    /\ UNCHANGED <<hvars, bvars, wvars, evars, svars, mvars>>

-----------------------------------------------------------------------------
(* metrics.CalculateHealthScore                                            *)

Severities == {"Low", "Medium", "High", "Unknown"}

\* downloadMbps values, in whole Mbps, around the bands' edges
ScoreMbps == {0, 24, 25, 49, 50, 60, 99, 100, 250}

\* latency and jitter values around the bands' edges
ScoreLatencies ==
    {0, 40 * Millisecond, 49 * Millisecond, 50 * Millisecond, 99 * Millisecond,
     100 * Millisecond, 199 * Millisecond, 200 * Millisecond, 900 * Millisecond}
ScoreJitters ==
    {0, 3 * Millisecond, 5 * Millisecond - 1, 5 * Millisecond, 14 * Millisecond,
     15 * Millisecond, 29 * Millisecond, 30 * Millisecond, 80 * Millisecond}

\* lines 93-99
ThroughputPoints(downloadMbps) ==
    IF downloadMbps >= 100 THEN 30
    ELSE IF downloadMbps >= 50 THEN 20
    ELSE IF downloadMbps >= 25 THEN 10
    ELSE 0

\* lines 101-112
LatencyPoints(latency) ==
    IF latency < 50 * Millisecond THEN 25
    ELSE IF latency < 100 * Millisecond THEN 15
    ELSE IF latency < 200 * Millisecond THEN 5
    ELSE 0

\* the jitter bands with <= for <
JitterPointsInclusive(jitter) ==
    IF jitter <= 5 * Millisecond THEN 25
    ELSE IF jitter <= 15 * Millisecond THEN 15
    ELSE IF jitter <= 30 * Millisecond THEN 5
    ELSE 0

\* lines 114-125
JitterPoints(jitter) ==
    IF jitter < 5 * Millisecond THEN 25
    ELSE IF jitter < 15 * Millisecond THEN 15
    ELSE IF jitter < 30 * Millisecond THEN 5
    ELSE 0

\* lines 127-137: the switch has no default case
BufferbloatPoints(bufferbloat) ==
    CASE bufferbloat = "Low" -> 20
      [] bufferbloat = "Medium" -> 10
      [] bufferbloat = "High" -> 0
      [] OTHER -> 0

\* the grades with > for >=
GradeOfStrict(score) ==
    IF score > 90 THEN "A"
    ELSE IF score > 75 THEN "B"
    ELSE IF score > 60 THEN "C"
    ELSE IF score > 40 THEN "D"
    ELSE "F"

\* lines 139-148
GradeOf(score) ==
    IF score >= 90 THEN "A"
    ELSE IF score >= 75 THEN "B"
    ELSE IF score >= 60 THEN "C"
    ELSE IF score >= 40 THEN "D"
    ELSE "F"

\* lines 89-158: score starts at 0 and each block adds its points
CalculateHealthScore(downloadMbps, jitter, latency, bufferbloat) ==
    LET s1 == 0 + ThroughputPoints(downloadMbps)
        s2 == s1 + LatencyPoints(latency)
        s3 == s2 + JitterPoints(jitter)
        score == s3 + BufferbloatPoints(bufferbloat)
    IN [kind |-> "result", Grade |-> GradeOf(score), Score |-> score,
        DownloadMbps |-> downloadMbps, Jitter |-> jitter, Latency |-> latency,
        Bufferbloat |-> bufferbloat]

HealthIdle == hpc = "idle" /\ hin = NoValue /\ hout = NoValue

HealthInit ==
    /\ hpc = "call"
    /\ hin \in [downloadMbps : ScoreMbps, jitter : ScoreJitters,
                latency : ScoreLatencies, bufferbloat : Severities]
    /\ hout = NoValue

\* the call returns
HScore ==
    /\ hpc = "call"
    /\ hout' = CalculateHealthScore(hin.downloadMbps, hin.jitter, hin.latency,
                                    hin.bufferbloat)
    /\ hpc' = "done"
    /\ UNCHANGED hin
    /\ UNCHANGED <<jvars, bvars, wvars, evars, svars, mvars>>

-----------------------------------------------------------------------------
(* metrics.MeasureBufferbloat                                              *)

\* line 26: the number of requests of the load burst
burstRequests == 10

\* the times a single latency probe can take: they give differences below
\* 0, of exactly 100ms and 300ms, and one nanosecond above each
BloatLatencies ==
    {0, 1, 100 * Millisecond + 1, 300 * Millisecond + 1, 500 * Millisecond}

\* the severity with >= for >
SeverityOfInclusive(delta) ==
    IF delta >= 300 * Millisecond THEN "High"
    ELSE IF delta >= 100 * Millisecond THEN "Medium"
    ELSE "Low"

\* lines 42-48
SeverityOf(delta) ==
    IF delta > 300 * Millisecond THEN "High"
    ELSE IF delta > 100 * Millisecond THEN "Medium"
    ELSE "Low"

\* lines 41-55
BufferbloatResultOf(idle, underLoad) ==
    LET delta == underLoad - idle
    IN [kind |-> "result", LatencyUnderLoad |-> underLoad, LatencyIdle |-> idle,
        BloatDelta |-> delta, Severity |-> SeverityOf(delta)]

\* history: the burst requests that have returned, those that failed, and
\* the measureSingleLatency calls made
BHistInit == [finished |-> 0, errs |-> 0, probes |-> 0]

BloatIdle ==
    /\ bpc = "idle" /\ bctxDone = FALSE /\ idleLatency = 0
    /\ underLoadLatency = 0 /\ burstStarted = 0 /\ burstWg = 0
    /\ bresult = NoValue /\ bhist = BHistInit

\* the call MeasureBufferbloat(ctx, url)
BloatInit ==
    /\ bpc = "probe_idle" /\ bctxDone \in BOOLEAN /\ idleLatency = 0
    /\ underLoadLatency = 0 /\ burstStarted = 0 /\ burstWg = 0
    /\ bresult = NoValue /\ bhist = BHistInit

\* the caller's context is cancelled or its deadline passes
BCtxDone ==
    /\ bpc \in {"probe_idle", "burst", "probe_load"} /\ ~bctxDone
    /\ bctxDone' = TRUE
    /\ UNCHANGED <<bpc, idleLatency, underLoadLatency, burstStarted, burstWg,
                   bresult, bhist>>
    /\ UNCHANGED <<jvars, hvars, wvars, evars, svars, mvars>>

\* lines 18-21: the idle probe succeeds
BIdleOk ==
    /\ bpc = "probe_idle" /\ ~bctxDone
    /\ \E l \in BloatLatencies : idleLatency' = l
    /\ bpc' = "burst"
    /\ bhist' = [bhist EXCEPT !.probes = @ + 1]
    /\ UNCHANGED <<bctxDone, underLoadLatency, burstStarted, burstWg, bresult>>
    /\ UNCHANGED <<jvars, hvars, wvars, evars, svars, mvars>>

\* lines 18-21: the idle probe fails and the call returns its error
BIdleFail ==
    /\ bpc = "probe_idle"
    /\ bresult' = [kind |-> "error"]
    /\ bpc' = "done"
    /\ bhist' = [bhist EXCEPT !.probes = @ + 1]
    /\ UNCHANGED <<bctxDone, idleLatency, underLoadLatency, burstStarted,
                   burstWg>>
    /\ UNCHANGED <<jvars, hvars, wvars, evars, svars, mvars>>

\* lines 26-33: one iteration of the loop: wg.Add(1) and the go statement
BSpawn ==
    /\ bpc = "burst" /\ burstStarted < burstRequests
    /\ burstStarted' = burstStarted + 1
    /\ burstWg' = burstWg + 1
    /\ UNCHANGED <<bpc, bctxDone, idleLatency, underLoadLatency, bresult, bhist>>
    /\ UNCHANGED <<jvars, hvars, wvars, evars, svars, mvars>>

\* lines 28-32: a burst goroutine's client.Do returns, its result and its
\* error are dropped, and the deferred wg.Done runs
BBurstDone ==
    /\ bpc = "burst" /\ burstWg > 0
    /\ \E failed \in BOOLEAN :
          /\ bctxDone => failed
          /\ bhist' = [bhist EXCEPT
                          !.finished = @ + 1,
                          !.errs = IF failed THEN @ + 1 ELSE @]
    /\ burstWg' = burstWg - 1
    /\ UNCHANGED <<bpc, bctxDone, idleLatency, underLoadLatency, burstStarted,
                   bresult>>
    /\ UNCHANGED <<jvars, hvars, wvars, evars, svars, mvars>>

\* a wg.Wait that does not wait
BurstJoinedAtOnce == TRUE

\* line 34: wg.Wait returns when the counter is 0
BurstJoined == burstWg = 0

\* line 34: wg.Wait, after the loop
BWait ==
    /\ bpc = "burst" /\ burstStarted = burstRequests /\ BurstJoined
    /\ bpc' = "probe_load"
    /\ UNCHANGED <<bctxDone, idleLatency, underLoadLatency, burstStarted,
                   burstWg, bresult, bhist>>
    /\ UNCHANGED <<jvars, hvars, wvars, evars, svars, mvars>>

\* lines 36-55: the loaded probe succeeds and the result is returned
BLoadOk ==
    /\ bpc = "probe_load" /\ ~bctxDone
    /\ \E l \in BloatLatencies :
          /\ underLoadLatency' = l
          /\ bresult' = BufferbloatResultOf(idleLatency, l)
    /\ bpc' = "done"
    /\ bhist' = [bhist EXCEPT !.probes = @ + 1]
    /\ UNCHANGED <<bctxDone, idleLatency, burstStarted, burstWg>>
    /\ UNCHANGED <<jvars, hvars, wvars, evars, svars, mvars>>

\* lines 36-39: the loaded probe fails and the call returns its error
BLoadFail ==
    /\ bpc = "probe_load"
    /\ bresult' = [kind |-> "error"]
    /\ bpc' = "done"
    /\ bhist' = [bhist EXCEPT !.probes = @ + 1]
    /\ UNCHANGED <<bctxDone, idleLatency, underLoadLatency, burstStarted,
                   burstWg>>
    /\ UNCHANGED <<jvars, hvars, wvars, evars, svars, mvars>>

-----------------------------------------------------------------------------
(* watchdog.Watcher                                                        *)

\* bound: the number of tick calls of one watch session
MaxTicks == 2
\* bound: the number of Start calls made on the Watcher of SpecWatch
MaxStarts == 2
\* bound: the number of tick calls of SpecAlertLog, after the ticks its
\* Watcher has already run
MaxLogTicks == 2
\* bound: SpecAlertLog starts from Watchers that have run maxAlerts - AgeSlack
\* up to maxAlerts alerting ticks
AgeSlack == 2

\* addAlert's maxAlerts
maxAlerts == 100

\* the goroutines that call Start: the k-th call is made by goroutine k
Loops == 1..MaxStarts

\* the Config runWatchdog builds from the flags at their defaults (main.go
\* lines 28-32 and 196-205).  Interval is in milliseconds here, the other
\* durations in nanoseconds; the URL plays no part
DefaultConfig ==
    [Interval |-> 5000, JitterSamples |-> 5,
     JitterInterval |-> 100 * Millisecond,
     JitterThreshold |-> 15 * Millisecond,
     LatencyThreshold |-> 100 * Millisecond, LossThreshold |-> 5,
     GamingMode |-> FALSE]

\* the Configs of SpecTicks: the defaults, the same with no jitter sampling,
\* and the same with every threshold at zero
TickConfigs ==
    {DefaultConfig,
     [DefaultConfig EXCEPT !.JitterSamples = 0],
     [DefaultConfig EXCEPT !.LatencyThreshold = 0, !.JitterThreshold = 0,
                           !.LossThreshold = 0]}

\* the Configs of SpecWatch: the defaults, and -interval 0
WatchConfigs == {DefaultConfig, [DefaultConfig EXCEPT !.Interval = 0]}

\* what the network shows a tick of SpecTicks: the latency of the probe,
\* and for the jitter run the number of its probes that succeed and the
\* Jitter of those
WatchLatencies == {40 * Millisecond, 100 * Millisecond, 120 * Millisecond}
WatchSuccesses == {0, 1, 3, 5}
WatchJitters == {0, 4 * Millisecond, 20 * Millisecond}

\* what the network shows a tick of SpecWatch
LoopLatencies == {120 * Millisecond}
LoopSuccesses == {3, 5}
LoopJitters == {20 * Millisecond}

\* the Config and the network of SpecAlertLog: small latencies, so that the
\* sums of a hundred ticks stay in range
LogConfig ==
    [DefaultConfig EXCEPT !.LatencyThreshold = 10 * Millisecond]
LogLatencies == {5 * Millisecond, 12 * Millisecond}
LogSuccesses == {1, 5}
LogJitters == {0, 20 * Millisecond}

\* JitterResult.PacketLoss of a run of n probes of which s succeeded, in
\* percent (the n used here divide (n-s)*100)
LossPercent(n, s) == ((n - s) * 100) \div n

\* the (Jitter, PacketLoss) a MeasureJitter run of n > 0 probes returns when
\* the number of its successes is in succ and the Jitter of two or more
\* successes in jits: fewer than two successes give Jitter 0 (jitter.go
\* lines 48-54)
JitterOutcomes(n, succ, jits) ==
    {[Jitter |-> IF s >= 2 THEN j ELSE 0, PacketLoss |-> LossPercent(n, s)] :
        <<s, j>> \in (succ \cap (0..n)) \X jits}

\* NewWatcher, lines 59-68: the zero Stats with an empty GradeCounts map (a
\* grade that is not in the map counts 0)
NewStats ==
    [Samples |-> 0, LatencyMin |-> 0, LatencyMax |-> 0, LatencySum |-> 0,
     JitterMin |-> 0, JitterMax |-> 0, JitterSum |-> 0, LossSum |-> 0,
     LatencyAlerts |-> 0, JitterAlerts |-> 0, LossAlerts |-> 0,
     GradeCounts |-> [A |-> 0, B |-> 0, C |-> 0, D |-> 0, F |-> 0]]

\* updateStats leaving the grade histogram alone
updateStatsSkipsGrade(st, latency, jitter, loss, grade) ==
    LET n == st.Samples + 1
        s1 == [st EXCEPT
                 !.Samples = n,
                 !.LatencyMin = IF n = 1 \/ latency < @ THEN latency ELSE @,
                 !.LatencyMax = IF latency > @ THEN latency ELSE @,
                 !.LatencySum = @ + latency]
        s2 == IF jitter > 0
              THEN [s1 EXCEPT
                      !.JitterMin = IF n = 1 \/ jitter < @ THEN jitter ELSE @,
                      !.JitterMax = IF jitter > @ THEN jitter ELSE @,
                      !.JitterSum = @ + jitter]
              ELSE s1
    IN [s2 EXCEPT !.LossSum = @ + loss]

\* updateStats, lines 145-171
updateStats(st, latency, jitter, loss, grade) ==
    LET n == st.Samples + 1
        s1 == [st EXCEPT
                 !.Samples = n,
                 !.LatencyMin = IF n = 1 \/ latency < @ THEN latency ELSE @,
                 !.LatencyMax = IF latency > @ THEN latency ELSE @,
                 !.LatencySum = @ + latency]
        s2 == IF jitter > 0
              THEN [s1 EXCEPT
                      !.JitterMin = IF n = 1 \/ jitter < @ THEN jitter ELSE @,
                      !.JitterMax = IF jitter > @ THEN jitter ELSE @,
                      !.JitterSum = @ + jitter]
              ELSE s1
    IN [s2 EXCEPT !.LossSum = @ + loss, !.GradeCounts[grade] = @ + 1]

\* the guards of checkAlerts with >= for >
BreachAtLeast(threshold, value) == threshold > 0 /\ value >= threshold

\* the guards of checkAlerts, lines 177, 189 and 201
Breach(threshold, value) == threshold > 0 /\ value > threshold

\* the counter++ of lines 184-186, 196-198 and 208-210, each under Stats.mu
countAlert(st, type) ==
    CASE type = "latency" -> [st EXCEPT !.LatencyAlerts = @ + 1]
      [] type = "jitter" -> [st EXCEPT !.JitterAlerts = @ + 1]
      [] type = "loss" -> [st EXCEPT !.LossAlerts = @ + 1]

\* checkAlerts, lines 173-214: the alerts of this tick, in the order
\* latency, jitter, loss, and the Stats with the counters incremented
checkAlerts(cfg, st, latency, jitter, loss, now) ==
    LET lat == Breach(cfg.LatencyThreshold, latency)
        jit == Breach(cfg.JitterThreshold, jitter)
        los == Breach(cfg.LossThreshold, loss)
        a1 == IF lat
              THEN <<[Type |-> "latency", Value |-> latency,
                      Threshold |-> cfg.LatencyThreshold, Timestamp |-> now]>>
              ELSE <<>>
        a2 == IF jit
              THEN <<[Type |-> "jitter", Value |-> jitter,
                      Threshold |-> cfg.JitterThreshold, Timestamp |-> now]>>
              ELSE <<>>
        a3 == IF los
              THEN <<[Type |-> "loss", Value |-> loss,
                      Threshold |-> cfg.LossThreshold, Timestamp |-> now]>>
              ELSE <<>>
        s1 == IF lat THEN countAlert(st, "latency") ELSE st
        s2 == IF jit THEN countAlert(s1, "jitter") ELSE s1
        s3 == IF los THEN countAlert(s2, "loss") ELSE s2
    IN [alerts |-> a1 \o a2 \o a3, stats |-> s3]

\* addAlert cutting the log at its tail instead of its head
addAlertKeepOldest(log, alert) ==
    LET appended == Append(log, alert)
    IN IF Len(appended) > maxAlerts THEN SubSeq(appended, 1, maxAlerts)
       ELSE appended

\* addAlert, lines 216-225
addAlert(log, alert) ==
    LET appended == Append(log, alert)
    IN IF Len(appended) > maxAlerts
       THEN SubSeq(appended, Len(appended) - maxAlerts + 1, Len(appended))
       ELSE appended

\* the loop of tick, lines 138-140
RECURSIVE addAlerts(_, _)
addAlerts(log, new) ==
    IF new = <<>> THEN log ELSE addAlerts(addAlert(log, Head(new)), Tail(new))

\* lines 126-131 of tick: the jitter and loss taken from the jitter result
TickJitter(in) == IF in.jr = NoValue THEN 0 ELSE in.jr.Jitter
TickLoss(in) == IF in.jr = NoValue THEN 0 ELSE in.jr.PacketLoss

\* a tick that scores with a throughput of 100 Mbps
TickThroughputFast == 50 + 50

\* line 133: the throughput a tick scores with
TickThroughput == 0

\* line 133: the grade of a tick
TickGrade(latency, jitter) ==
    CalculateHealthScore(TickThroughput, jitter, latency, "Unknown").Grade

\* a tick that counts a sample when its latency probe has failed
FailedProbeCounts(st) == [st EXCEPT !.Samples = @ + 1]

\* lines 116-119: the Stats when the latency probe has failed; tick returns
\* without touching them
FailedProbe(st) == st

\* tick, lines 113-143, run from its call to its return with no other
\* goroutine's step in between, on the Watcher's Stats and Alerts; in is
\* what it meets: the latency probe's outcome and the jitter run's
tick(cfg, st, log, in, now) ==
    IF in.err THEN [stats |-> FailedProbe(st), alerts |-> log]
    ELSE LET jitter == TickJitter(in)
             loss == TickLoss(in)
             st1 == updateStats(st, in.latency, jitter, loss,
                                TickGrade(in.latency, jitter))
             chk == checkAlerts(cfg, st1, in.latency, jitter, loss, now)
         IN [stats |-> chk.stats, alerts |-> addAlerts(log, chk.alerts)]

\* The history of the session, kept beside the Watcher to state properties:
\*   budget    tick calls the session may still begin
\*   starts    Start calls the session may still make
\*   ok        ticks whose latency probe succeeded
\*   failed    ticks whose latency probe failed
\*   lastOk    whether the last latency probe succeeded
\*   over      per category, ticks whose observed value was above the threshold
\*   appended  every alert ever handed to addAlert, in order
\*   jitters   the jitter values > 0 handed to updateStats, in order
WHistInit(budget, starts) ==
    [budget |-> budget, starts |-> starts, ok |-> 0, failed |-> 0,
     lastOk |-> TRUE, over |-> [latency |-> 0, jitter |-> 0, loss |-> 0],
     appended |-> <<>>, jitters |-> <<>>]

\* the time.Now() of a tick: the ordinal of the tick
TickNow(h) == h.ok + h.failed + 1

\* the history after a tick run from its call to its return
WHistNext(cfg, h, in) ==
    IF in.err THEN [h EXCEPT !.budget = @ - 1, !.failed = @ + 1, !.lastOk = FALSE]
    ELSE [h EXCEPT
            !.budget = @ - 1, !.ok = @ + 1, !.lastOk = TRUE,
            !.over.latency = IF in.latency > cfg.LatencyThreshold THEN @ + 1 ELSE @,
            !.over.jitter = IF TickJitter(in) > cfg.JitterThreshold THEN @ + 1 ELSE @,
            !.over.loss = IF TickLoss(in) > cfg.LossThreshold THEN @ + 1 ELSE @,
            !.appended = @ \o checkAlerts(cfg, NewStats, in.latency, TickJitter(in),
                                          TickLoss(in), TickNow(h)).alerts,
            !.jitters = IF TickJitter(in) > 0 THEN Append(@, TickJitter(in)) ELSE @]

\* a Watcher and its history after one more tick
TickStep(cfg, w, in) ==
    LET t == tick(cfg, w.stats, w.alerts, in, TickNow(w.hist))
    IN [stats |-> t.stats, alerts |-> t.alerts, hist |-> WHistNext(cfg, w.hist, in)]

\* the Watcher w ticked, each tick meeting the input in, until it has run n
\* ticks
RECURSIVE AfterTicks(_, _, _, _)
AfterTicks(cfg, w, in, n) ==
    IF w.hist.ok + w.hist.failed >= n THEN w
    ELSE AfterTicks(cfg, TickStep(cfg, w, in), in, n)

\* where a Start call is (wpc[i]):
\*   "unborn"    not made
\*   "started"   lines 71-73 done, before line 75
\*   "select"    at the select of line 91
\*   "probe"     in tick, MeasureLatency has not returned (line 115)
\*   "measure"   in tick, between line 121 and the updateStats of line 135
\*   "count"     in checkAlerts, before the next counter++
\*   "add"       in the loop of lines 138-140, before the next addAlert
\*   "returned"  Start has returned
\*   "panicked"  time.NewTicker has panicked (line 78)
TickPcs == {"probe", "measure", "count", "add"}
InLoop(i) == wpc[i] \in {"select"} \cup TickPcs

\* the local variables of a tick: the latency of line 115, the jitter and
\* loss of lines 126-131, the time of line 175 and the number of counters
\* incremented or alerts added so far
NoTick == [latency |-> 0, jitter |-> 0, loss |-> 0, now |-> 0, k |-> 0]

\* the alerts checkAlerts builds for the tick of goroutine i
TickAlerts(i) ==
    checkAlerts(wcfg, NewStats, wtick[i].latency, wtick[i].jitter,
                wtick[i].loss, wtick[i].now).alerts

\* the process has died: close(w.stopChan) on a closed channel panics, and
\* so does time.NewTicker with an Interval that is not positive
Panicked == stopCloses > 1 \/ \E i \in Loops : wpc[i] = "panicked"

WatchIdle ==
    /\ wcfg = NoValue /\ stats = NewStats /\ alerts = <<>> /\ running = FALSE
    /\ stopCloses = 0 /\ wpc = [i \in Loops |-> "unborn"] /\ wstarts = 0
    /\ tickerC = [i \in Loops |-> FALSE] /\ wctxDone = FALSE
    /\ sigPending = [i \in Loops |-> FALSE] /\ activeTicks = 0
    /\ wtick = [i \in Loops |-> NoTick] /\ whist = WHistInit(0, 0)

\* NewWatcher(cfg), lines 59-68, of a session of up to budget ticks and
\* starts calls of Start
NewWatcher(cfgs, budget, starts) ==
    /\ wcfg \in cfgs /\ stats = NewStats /\ alerts = <<>>
    /\ running = FALSE /\ stopCloses = 0 /\ wpc = [i \in Loops |-> "unborn"]
    /\ wstarts = 0 /\ tickerC = [i \in Loops |-> FALSE] /\ wctxDone = FALSE
    /\ sigPending = [i \in Loops |-> FALSE] /\ activeTicks = 0
    /\ wtick = [i \in Loops |-> NoTick] /\ whist = WHistInit(budget, starts)

\* SpecWatch: Start and Stop are called from any goroutine, in any order
WatchInit == NewWatcher(WatchConfigs, MaxTicks, MaxStarts)

\* SpecTicks: Start is called once, as runWatchdog does (main.go line 209),
\* and the session is followed while it is not stopped
TicksInit == NewWatcher(TickConfigs, MaxTicks, 1)

\* Start, lines 70-73: running is set whatever it was
WStart ==
    /\ ~Panicked /\ whist.starts > 0
    /\ running' = TRUE /\ wstarts' = wstarts + 1
    /\ wpc' = [wpc EXCEPT ![wstarts + 1] = "started"]
    /\ whist' = [whist EXCEPT !.starts = @ - 1]
    /\ UNCHANGED <<wcfg, stats, alerts, stopCloses, tickerC, wctxDone,
                   sigPending, activeTicks, wtick>>
    /\ UNCHANGED <<jvars, hvars, bvars, evars, svars, mvars>>

\* Start, lines 75-89: sigChan is made and registered, the ticker is made
\* (time.NewTicker panics unless the Interval is positive) and the caller
\* arrives at its loop
WEnter ==
    /\ ~Panicked
    /\ \E i \in Loops :
          /\ wpc[i] = "started"
          /\ wpc' = [wpc EXCEPT ![i] = IF wcfg.Interval > 0 THEN "select"
                                       ELSE "panicked"]
    /\ UNCHANGED <<wcfg, stats, alerts, running, stopCloses, wstarts, tickerC,
                   wctxDone, sigPending, activeTicks, wtick, whist>>
    /\ UNCHANGED <<jvars, hvars, bvars, evars, svars, mvars>>

\* Stop, lines 104-111
WStop ==
    /\ ~Panicked
    /\ IF running
       THEN running' = FALSE /\ stopCloses' = stopCloses + 1
       ELSE UNCHANGED <<running, stopCloses>>
    /\ UNCHANGED <<wcfg, stats, alerts, wpc, wstarts, tickerC, wctxDone,
                   sigPending, activeTicks, wtick, whist>>
    /\ UNCHANGED <<jvars, hvars, bvars, evars, svars, mvars>>

\* the ticker of line 78 delivers a tick; ticker.C holds one tick and the
\* ticker drops the ticks it cannot deliver
WTickerFire ==
    /\ ~Panicked
    /\ \E i \in Loops :
          /\ InLoop(i) /\ ~tickerC[i]
          /\ tickerC' = [tickerC EXCEPT ![i] = TRUE]
    /\ UNCHANGED <<wcfg, stats, alerts, running, stopCloses, wpc, wstarts,
                   wctxDone, sigPending, activeTicks, wtick, whist>>
    /\ UNCHANGED <<jvars, hvars, bvars, evars, svars, mvars>>

\* the ctx given to Start is cancelled or times out
WCtxDone ==
    /\ ~Panicked /\ ~wctxDone
    /\ wctxDone' = TRUE
    /\ UNCHANGED <<wcfg, stats, alerts, running, stopCloses, wpc, wstarts,
                   tickerC, sigPending, activeTicks, wtick, whist>>
    /\ UNCHANGED <<jvars, hvars, bvars, evars, svars, mvars>>

\* SIGINT or SIGTERM is delivered to every sigChan registered by a Start
\* call that is in its loop (lines 75-76); a sigChan that is full is skipped
WSignal ==
    /\ ~Panicked
    /\ \E i \in Loops : InLoop(i) /\ ~sigPending[i]
    /\ sigPending' = [i \in Loops |-> sigPending[i] \/ InLoop(i)]
    /\ UNCHANGED <<wcfg, stats, alerts, running, stopCloses, wpc, wstarts,
                   tickerC, wctxDone, activeTicks, wtick, whist>>
    /\ UNCHANGED <<jvars, hvars, bvars, evars, svars, mvars>>

\* the select of lines 91-100 takes any case that is ready; Start's return
\* stops its ticker (line 79)
WSelectCtx ==
    /\ ~Panicked
    /\ \E i \in Loops :
          /\ wpc[i] = "select" /\ wctxDone
          /\ wpc' = [wpc EXCEPT ![i] = "returned"]
          /\ tickerC' = [tickerC EXCEPT ![i] = FALSE]
    /\ UNCHANGED <<wcfg, stats, alerts, running, stopCloses, wstarts,
                   wctxDone, sigPending, activeTicks, wtick, whist>>
    /\ UNCHANGED <<jvars, hvars, bvars, evars, svars, mvars>>

WSelectSig ==
    /\ ~Panicked
    /\ \E i \in Loops :
          /\ wpc[i] = "select" /\ sigPending[i]
          /\ wpc' = [wpc EXCEPT ![i] = "returned"]
          /\ sigPending' = [sigPending EXCEPT ![i] = FALSE]
          /\ tickerC' = [tickerC EXCEPT ![i] = FALSE]
    /\ UNCHANGED <<wcfg, stats, alerts, running, stopCloses, wstarts,
                   wctxDone, activeTicks, wtick, whist>>
    /\ UNCHANGED <<jvars, hvars, bvars, evars, svars, mvars>>

WSelectStop ==
    /\ ~Panicked
    /\ \E i \in Loops :
          /\ wpc[i] = "select" /\ stopCloses > 0
          /\ wpc' = [wpc EXCEPT ![i] = "returned"]
          /\ tickerC' = [tickerC EXCEPT ![i] = FALSE]
    /\ UNCHANGED <<wcfg, stats, alerts, running, stopCloses, wstarts,
                   wctxDone, sigPending, activeTicks, wtick, whist>>
    /\ UNCHANGED <<jvars, hvars, bvars, evars, svars, mvars>>

\* where a Start loop is once it has taken a tick from ticker.C: line 99
\* calls w.tick(ctx) and waits for it to return
PcOnTick == "probe"

\* case <-ticker.C: the call of tick begins (line 99)
WSelectTick ==
    /\ ~Panicked /\ whist.budget > 0
    /\ \E i \in Loops :
          /\ wpc[i] = "select" /\ tickerC[i]
          /\ tickerC' = [tickerC EXCEPT ![i] = FALSE]
          /\ wpc' = [wpc EXCEPT ![i] = PcOnTick]
    /\ activeTicks' = activeTicks + 1
    /\ whist' = [whist EXCEPT !.budget = @ - 1]
    /\ UNCHANGED <<wcfg, stats, alerts, running, stopCloses, wstarts, wctxDone,
                   sigPending, wtick>>
    /\ UNCHANGED <<jvars, hvars, bvars, evars, svars, mvars>>

\* lines 114-119: MeasureLatency returns.  On a ctx that is done it fails;
\* a failed probe ends the tick, and the loop is back at its select
WProbe(lats) ==
    /\ ~Panicked
    /\ \E i \in Loops :
          /\ wpc[i] = "probe"
          /\ \/ /\ stats' = FailedProbe(stats)
                /\ wpc' = [wpc EXCEPT ![i] = "select"]
                /\ activeTicks' = activeTicks - 1
                /\ whist' = [whist EXCEPT !.failed = @ + 1, !.lastOk = FALSE]
                /\ UNCHANGED wtick
             \/ /\ ~wctxDone
                /\ \E l \in lats :
                      /\ wtick' = [wtick EXCEPT
                                     ![i] = [NoTick EXCEPT
                                               !.latency = l,
                                               !.now = TickNow(whist)]]
                      /\ whist' = [whist EXCEPT
                                     !.ok = @ + 1, !.lastOk = TRUE,
                                     !.over.latency =
                                        IF l > wcfg.LatencyThreshold
                                        THEN @ + 1 ELSE @]
                /\ wpc' = [wpc EXCEPT ![i] = "measure"]
                /\ UNCHANGED <<stats, activeTicks>>
    /\ UNCHANGED <<wcfg, alerts, running, stopCloses, wstarts, tickerC,
                   wctxDone, sigPending>>
    /\ UNCHANGED <<jvars, hvars, bvars, evars, svars, mvars>>

\* lines 121-135: MeasureJitter, when the Config asks for it, returns its
\* result, and updateStats runs under Stats.mu.  A tick with no alert
\* returns (lines 137-143)
WMeasure(succ, jits) ==
    /\ ~Panicked
    /\ \E i \in Loops :
          /\ wpc[i] = "measure"
          /\ \E jr \in IF wcfg.JitterSamples > 0
                       THEN JitterOutcomes(wcfg.JitterSamples, succ, jits)
                       ELSE {NoValue} :
                LET jitter == TickJitter([jr |-> jr])
                    loss == TickLoss([jr |-> jr])
                    latency == wtick[i].latency
                    none == checkAlerts(wcfg, NewStats, latency, jitter, loss,
                                        wtick[i].now).alerts = <<>>
                IN /\ stats' = updateStats(stats, latency, jitter, loss,
                                           TickGrade(latency, jitter))
                   /\ whist' = [whist EXCEPT
                                  !.over.jitter =
                                     IF jitter > wcfg.JitterThreshold
                                     THEN @ + 1 ELSE @,
                                  !.over.loss =
                                     IF loss > wcfg.LossThreshold
                                     THEN @ + 1 ELSE @,
                                  !.jitters = IF jitter > 0
                                              THEN Append(@, jitter) ELSE @]
                   /\ IF none
                      THEN /\ wpc' = [wpc EXCEPT ![i] = "select"]
                           /\ wtick' = [wtick EXCEPT ![i] = NoTick]
                           /\ activeTicks' = activeTicks - 1
                      ELSE /\ wpc' = [wpc EXCEPT ![i] = "count"]
                           /\ wtick' = [wtick EXCEPT ![i].jitter = jitter,
                                                     ![i].loss = loss]
                           /\ UNCHANGED activeTicks
    /\ UNCHANGED <<wcfg, alerts, running, stopCloses, wstarts, tickerC,
                   wctxDone, sigPending>>
    /\ UNCHANGED <<jvars, hvars, bvars, evars, svars, mvars>>

\* checkAlerts, lines 173-214: the next counter++, under Stats.mu
WCount ==
    /\ ~Panicked
    /\ \E i \in Loops :
          /\ wpc[i] = "count"
          /\ LET al == TickAlerts(i)
                 k == wtick[i].k + 1
             IN /\ stats' = countAlert(stats, al[k].Type)
                /\ IF k = Len(al)
                   THEN /\ wpc' = [wpc EXCEPT ![i] = "add"]
                        /\ wtick' = [wtick EXCEPT ![i].k = 0]
                   ELSE /\ wtick' = [wtick EXCEPT ![i].k = k]
                        /\ UNCHANGED wpc
    /\ UNCHANGED <<wcfg, alerts, running, stopCloses, wstarts, tickerC,
                   wctxDone, sigPending, activeTicks, whist>>
    /\ UNCHANGED <<jvars, hvars, bvars, evars, svars, mvars>>

\* lines 138-143: the next addAlert, under alertsMu; after the last one the
\* tick returns
WAdd ==
    /\ ~Panicked
    /\ \E i \in Loops :
          /\ wpc[i] = "add"
          /\ LET al == TickAlerts(i)
                 k == wtick[i].k + 1
             IN /\ alerts' = addAlert(alerts, al[k])
                /\ whist' = [whist EXCEPT !.appended = Append(@, al[k])]
                /\ IF k = Len(al)
                   THEN /\ wpc' = [wpc EXCEPT ![i] = "select"]
                        /\ wtick' = [wtick EXCEPT ![i] = NoTick]
                        /\ activeTicks' = activeTicks - 1
                   ELSE /\ wtick' = [wtick EXCEPT ![i].k = k]
                        /\ UNCHANGED <<wpc, activeTicks>>
    /\ UNCHANGED <<wcfg, stats, running, stopCloses, wstarts, tickerC,
                   wctxDone, sigPending>>
    /\ UNCHANGED <<jvars, hvars, bvars, evars, svars, mvars>>

\* SpecAlertLog starts in the Start loop of a Watcher that has already run
\* n ticks, each with a latency above the threshold and nothing else
AgedInput == [err |-> FALSE, latency |-> 12 * Millisecond,
              jr |-> [Jitter |-> 0, PacketLoss |-> 0]]
AlertLogInit ==
    /\ wcfg = LogConfig
    /\ \E n \in (maxAlerts - AgeSlack)..maxAlerts :
          LET w == AfterTicks(LogConfig,
                              [stats |-> NewStats, alerts |-> <<>>,
                               hist |-> WHistInit(n + MaxLogTicks, 1)],
                              AgedInput, n)
          IN /\ stats = w.stats /\ alerts = w.alerts
             /\ whist = [w.hist EXCEPT !.starts = 0]
    /\ running = TRUE /\ stopCloses = 0
    /\ wpc = [i \in Loops |-> IF i = 1 THEN "select" ELSE "unborn"]
    /\ wstarts = 1 /\ tickerC = [i \in Loops |-> FALSE] /\ wctxDone = FALSE
    /\ sigPending = [i \in Loops |-> FALSE] /\ activeTicks = 0
    /\ wtick = [i \in Loops |-> NoTick]

-----------------------------------------------------------------------------
(* engine.runStandard and engine.RunP2P                                    *)

\* bound: the largest cfg.Downloads of runStandard
MaxDownloads == 3
\* bound: the largest number of targets of RunP2P
MaxTargets == 2

\* len(data) of a download that succeeds
ByteSizes == {0, 5}

\* time.Second, in nanoseconds
Second == 1000 * Millisecond

\* the values time.Since(start) can have after a run whose workers have
\* downloaded, and after any RunP2P run
SinceStart == {2, Second}
SinceStartP2P == {0, 2, Second}

RECURSIVE GCD(_, _)
GCD(a, b) == IF b = 0 THEN a ELSE GCD(b, a % b)

\* (bits / 1_000_000) / duration.Seconds(), with Seconds() = ns / 1e9: the
\* quotient as a fraction in lowest terms (den = 0 is the +Inf of x/0, and
\* 0/0 the NaN of 0/0)
MbpsOf(bits, ns) ==
    IF bits = 0 /\ ns = 0 THEN [num |-> 0, den |-> 0] ELSE
    LET g1 == GCD(bits, 1000000)
        a == bits \div g1
        b == 1000000 \div g1
        g2 == GCD(1000000000, ns)
        c == 1000000000 \div g2
        d == ns \div g2
        g3 == GCD(a, d)
        g4 == GCD(c, b)
    IN [num |-> (a \div g3) * (c \div g4), den |-> (b \div g4) * (d \div g3)]

Workers == 1..en

\* a worker goroutine: pc is
\*   "unborn"  its go statement has not run
\*   "ready"   started, before its request
\*   "lock"    request over (oc = "ok" with bytes, or "err"), at mu.Lock()
\*   "cs"      holds mu, before the counter's update
\*   "wrote"   holds mu, counter updated, at mu.Unlock()
\*   "exit"    at the deferred wg.Done()
\*   "done"    finished
\* attempts counts the requests the worker has made
NewWorker == [pc |-> "unborn", oc |-> "none", bytes |-> 0, attempts |-> 0]

\* the workers that can still write a shared counter
Writers == {i \in Workers : wk[i].pc \in {"ready", "lock", "cs"}}

\* The history of the call:
\*   racy  a shared counter was read without the lock while a worker that
\*         can still write it was running
EHistInit == [racy |-> FALSE]

EngineIdle ==
    /\ emode = "idle" /\ en = 0 /\ epc = "idle" /\ spawned = 0 /\ wk = <<>>
    /\ mu = 0 /\ totalBytes = 0 /\ errors = 0 /\ wg = 0 /\ ectxDone = FALSE
    /\ waiter = "none" /\ bitsBytes = 0 /\ elapsed = 0 /\ eret = NoValue
    /\ ehist = EHistInit

\* the call runStandard(ctx, cfg), lines 43-56
StandardInit ==
    /\ emode = "standard" /\ en \in 0..MaxDownloads /\ epc = "start"
    /\ spawned = 0 /\ wk = [i \in 1..en |-> NewWorker]
    /\ mu = 0 /\ totalBytes = 0 /\ errors = 0 /\ wg = 0 /\ ectxDone \in BOOLEAN
    /\ waiter = "none" /\ bitsBytes = 0 /\ elapsed = 0 /\ eret = NoValue
    /\ ehist = EHistInit

\* the call RunP2P(ctx, targets, duration), lines 206-218
P2PInit ==
    /\ emode = "p2p" /\ en \in 0..MaxTargets /\ epc = "start"
    /\ spawned = 0 /\ wk = [i \in 1..en |-> NewWorker]
    /\ mu = 0 /\ totalBytes = 0 /\ errors = 0 /\ wg = 0 /\ ectxDone \in BOOLEAN
    /\ waiter = "none" /\ bitsBytes = 0 /\ elapsed = 0 /\ eret = NoValue
    /\ ehist = EHistInit

\* the caller's ctx is cancelled or times out
ECtxDone ==
    /\ emode # "idle" /\ epc # "returned" /\ ~ectxDone
    /\ ectxDone' = TRUE
    /\ UNCHANGED <<emode, en, epc, spawned, wk, mu, totalBytes, errors, wg,
                   waiter, bitsBytes, elapsed, eret, ehist>>
    /\ UNCHANGED <<jvars, hvars, bvars, wvars, svars, mvars>>

\* ---- the worker: download (lines 58-88) and RunP2P's worker (lines 220-250)

\* the request: NewRequestWithContext, client.Do and io.ReadAll either give
\* len(data) bytes or fail; on a ctx that is done they fail.  A failing
\* io.ReadAll returns the part of the body it has read: bytes is then the
\* length of that partial data
WRequest(i) ==
    /\ wk[i].pc = "ready"
    /\ \E oc \in {"ok", "err"}, b \in ByteSizes :
          /\ oc = "ok" => ~ectxDone
          /\ wk' = [wk EXCEPT ![i] = [pc |-> "lock", oc |-> oc, bytes |-> b,
                                      attempts |-> @.attempts + 1]]
    /\ UNCHANGED <<emode, en, epc, spawned, mu, totalBytes, errors, wg, ectxDone,
                   waiter, bitsBytes, elapsed, eret, ehist>>
    /\ UNCHANGED <<jvars, hvars, bvars, wvars, svars, mvars>>

\* mu.Lock()
WLock(i) ==
    /\ wk[i].pc = "lock" /\ mu = 0
    /\ mu' = i /\ wk' = [wk EXCEPT ![i].pc = "cs"]
    /\ UNCHANGED <<emode, en, epc, spawned, totalBytes, errors, wg, ectxDone,
                   waiter, bitsBytes, elapsed, eret, ehist>>
    /\ UNCHANGED <<jvars, hvars, bvars, wvars, svars, mvars>>

\* a worker that adds the partial data of a failed read to the total
WWriteAddsPartial(i) ==
    /\ wk[i].pc = "cs"
    /\ IF wk[i].oc = "err"
       THEN errors' = errors + 1 /\ totalBytes' = totalBytes + wk[i].bytes
       ELSE totalBytes' = totalBytes + wk[i].bytes /\ UNCHANGED errors
    /\ wk' = [wk EXCEPT ![i].pc = "wrote"]
    /\ UNCHANGED <<emode, en, epc, spawned, mu, wg, ectxDone, waiter, bitsBytes,
                   elapsed, eret, ehist>>
    /\ UNCHANGED <<jvars, hvars, bvars, wvars, svars, mvars>>

\* errors++ (lines 63, 71, 80) or totalBytes += int64(len(data)) (line 86)
WWrite(i) ==
    /\ wk[i].pc = "cs"
    /\ IF wk[i].oc = "err"
       THEN errors' = errors + 1 /\ UNCHANGED totalBytes
       ELSE totalBytes' = totalBytes + wk[i].bytes /\ UNCHANGED errors
    /\ wk' = [wk EXCEPT ![i].pc = "wrote"]
    /\ UNCHANGED <<emode, en, epc, spawned, mu, wg, ectxDone, waiter, bitsBytes,
                   elapsed,
                   eret, ehist>>
    /\ UNCHANGED <<jvars, hvars, bvars, wvars, svars, mvars>>

\* mu.Unlock()
WUnlock(i) ==
    /\ wk[i].pc = "wrote" /\ mu = i
    /\ mu' = 0 /\ wk' = [wk EXCEPT ![i].pc = "exit"]
    /\ UNCHANGED <<emode, en, epc, spawned, totalBytes, errors, wg, ectxDone,
                   waiter, bitsBytes, elapsed, eret, ehist>>
    /\ UNCHANGED <<jvars, hvars, bvars, wvars, svars, mvars>>

\* the deferred wg.Done() (lines 59, 221)
WDone(i) ==
    /\ wk[i].pc = "exit"
    /\ wg' = wg - 1 /\ wk' = [wk EXCEPT ![i].pc = "done"]
    /\ UNCHANGED <<emode, en, epc, spawned, mu, totalBytes, errors, ectxDone,
                   waiter, bitsBytes, elapsed, eret, ehist>>
    /\ UNCHANGED <<jvars, hvars, bvars, wvars, svars, mvars>>

\* the steps of the workers
Request == \E i \in Workers : WRequest(i)
Lock == \E i \in Workers : WLock(i)
Write == \E i \in Workers : WWrite(i)
Unlock == \E i \in Workers : WUnlock(i)
Done == \E i \in Workers : WDone(i)

\* ---- runStandard, lines 90-112

\* wg.Add(cfg.Downloads), line 90
StdAdd ==
    /\ emode = "standard" /\ epc = "start"
    /\ wg' = wg + en /\ epc' = "spawn"
    /\ UNCHANGED <<emode, en, spawned, wk, mu, totalBytes, errors, ectxDone,
                   waiter, bitsBytes, elapsed, eret, ehist>>
    /\ UNCHANGED <<jvars, hvars, bvars, wvars, svars, mvars>>

\* go download(), lines 91-93: one iteration of the loop
StdSpawn ==
    /\ emode = "standard" /\ epc = "spawn" /\ spawned < en
    /\ spawned' = spawned + 1
    /\ wk' = [wk EXCEPT ![spawned + 1].pc = "ready"]
    /\ UNCHANGED <<emode, en, epc, mu, totalBytes, errors, wg, ectxDone, waiter,
                   bitsBytes, elapsed, eret, ehist>>
    /\ UNCHANGED <<jvars, hvars, bvars, wvars, svars, mvars>>

\* a wg.Wait() that does not wait
WaitReturnsAtOnce == TRUE

\* wg.Wait() returns when the counter is zero
WaitReturns == wg = 0

\* wg.Wait(), line 95
StdWait ==
    /\ emode = "standard" /\ epc = "spawn" /\ spawned = en
    /\ WaitReturns
    /\ epc' = "check"
    /\ UNCHANGED <<emode, en, spawned, wk, mu, totalBytes, errors, wg, ectxDone,
                   waiter, bitsBytes, elapsed, eret, ehist>>
    /\ UNCHANGED <<jvars, hvars, bvars, wvars, svars, mvars>>

\* lines 96-112: the duration is taken, and totalBytes and errors are read
\* without the lock
StdReturn ==
    /\ emode = "standard" /\ epc = "check"
    /\ \E d \in SinceStart :
          /\ elapsed' = d
          /\ eret' = IF totalBytes = 0
                     THEN [kind |-> "error", msg |-> "no data received"]
                     ELSE [kind |-> "result", BytesReceived |-> totalBytes,
                           Bits |-> totalBytes * 8, Duration |-> d,
                           DownloadSpeed |-> MbpsOf(totalBytes * 8, d),
                           Connections |-> en, Errors |-> errors]
    /\ ehist' = [ehist EXCEPT !.racy = @ \/ Writers # {}]
    /\ epc' = "returned"
    /\ UNCHANGED <<emode, en, spawned, wk, mu, totalBytes, errors, wg, ectxDone,
                   waiter, bitsBytes>>
    /\ UNCHANGED <<jvars, hvars, bvars, wvars, svars, mvars>>

\* ---- RunP2P, lines 206-283

\* a target list that is never taken as empty
NoTargetsNever(n) == FALSE

\* line 207: len(targets) == 0
NoTargets(n) == n = 0

\* an elapsed time that is left as it is
ElapsedAsIs(d) == d

\* lines 270-272
ElapsedFloored(d) == IF d = 0 THEN 1 ELSE d

\* lines 207-209
P2PNoTargets ==
    /\ emode = "p2p" /\ epc = "start" /\ NoTargets(en)
    /\ eret' = [kind |-> "error", msg |-> "no targets specified"]
    /\ epc' = "returned"
    /\ UNCHANGED <<emode, en, spawned, wk, mu, totalBytes, errors, wg, ectxDone,
                   waiter, bitsBytes, elapsed, ehist>>
    /\ UNCHANGED <<jvars, hvars, bvars, wvars, svars, mvars>>

\* wg.Add(len(targets)), line 253
P2PAdd ==
    /\ emode = "p2p" /\ epc = "start" /\ ~NoTargets(en)
    /\ wg' = wg + en /\ epc' = "spawn"
    /\ UNCHANGED <<emode, en, spawned, wk, mu, totalBytes, errors, ectxDone,
                   waiter, bitsBytes, elapsed, eret, ehist>>
    /\ UNCHANGED <<jvars, hvars, bvars, wvars, svars, mvars>>

\* go worker(target), lines 254-256: one iteration of the loop
P2PSpawn ==
    /\ emode = "p2p" /\ epc = "spawn" /\ spawned < en
    /\ spawned' = spawned + 1
    /\ wk' = [wk EXCEPT ![spawned + 1].pc = "ready"]
    /\ UNCHANGED <<emode, en, epc, mu, totalBytes, errors, wg, ectxDone, waiter,
                   bitsBytes, elapsed, eret, ehist>>
    /\ UNCHANGED <<jvars, hvars, bvars, wvars, svars, mvars>>

\* lines 258-262: the goroutine that waits for the workers is started
P2PGoWait ==
    /\ emode = "p2p" /\ epc = "spawn" /\ spawned = en
    /\ waiter' = "waiting" /\ epc' = "select"
    /\ UNCHANGED <<emode, en, spawned, wk, mu, totalBytes, errors, wg, ectxDone,
                   bitsBytes, elapsed, eret, ehist>>
    /\ UNCHANGED <<jvars, hvars, bvars, wvars, svars, mvars>>

\* wg.Wait(); close(done), lines 260-261
P2PWaiter ==
    /\ waiter = "waiting" /\ WaitReturns
    /\ waiter' = "closed"
    /\ UNCHANGED <<emode, en, epc, spawned, wk, mu, totalBytes, errors, wg,
                   ectxDone, bitsBytes, elapsed, eret, ehist>>
    /\ UNCHANGED <<jvars, hvars, bvars, wvars, svars, mvars>>

\* the select of lines 264-267: case <-done
P2PSelectDone ==
    /\ emode = "p2p" /\ epc = "select" /\ waiter = "closed"
    /\ epc' = "bits"
    /\ UNCHANGED <<emode, en, spawned, wk, mu, totalBytes, errors, wg, ectxDone,
                   waiter, bitsBytes, elapsed, eret, ehist>>
    /\ UNCHANGED <<jvars, hvars, bvars, wvars, svars, mvars>>

\* the select of lines 264-267: case <-ctx.Done()
P2PSelectCtx ==
    /\ emode = "p2p" /\ epc = "select" /\ ectxDone
    /\ epc' = "bits"
    /\ UNCHANGED <<emode, en, spawned, wk, mu, totalBytes, errors, wg, ectxDone,
                   waiter, bitsBytes, elapsed, eret, ehist>>
    /\ UNCHANGED <<jvars, hvars, bvars, wvars, svars, mvars>>

\* lines 269-274: the elapsed time is taken and raised to a nanosecond when
\* it is 0, and totalBytes is read, without the lock, for bits
P2PBits ==
    /\ emode = "p2p" /\ epc = "bits"
    /\ \E d \in SinceStartP2P : elapsed' = ElapsedFloored(d)
    /\ bitsBytes' = totalBytes
    /\ ehist' = [ehist EXCEPT !.racy = @ \/ Writers # {}]
    /\ epc' = "result"
    /\ UNCHANGED <<emode, en, spawned, wk, mu, totalBytes, errors, wg, ectxDone,
                   waiter, eret>>
    /\ UNCHANGED <<jvars, hvars, bvars, wvars, svars, mvars>>

\* lines 275-283: mbps is computed from bits, totalBytes and errors are
\* read, without the lock, for the Result, which is returned with a nil error
P2PReturn ==
    /\ emode = "p2p" /\ epc = "result"
    /\ eret' = [kind |-> "result", BytesReceived |-> totalBytes,
                Bits |-> bitsBytes * 8, Duration |-> elapsed,
                DownloadSpeed |-> MbpsOf(bitsBytes * 8, elapsed),
                Connections |-> en, Errors |-> errors]
    /\ ehist' = [ehist EXCEPT !.racy = @ \/ Writers # {}]
    /\ epc' = "returned"
    /\ UNCHANGED <<emode, en, spawned, wk, mu, totalBytes, errors, wg, ectxDone,
                   waiter, bitsBytes, elapsed>>
    /\ UNCHANGED <<jvars, hvars, bvars, wvars, svars, mvars>>

-----------------------------------------------------------------------------
(* engine.runStress                                                        *)

\* bound: the largest number of requests the workers of one run make
MaxStressRequests == 3

\* lines 117-118: the least number of workers
minConnections == 10

\* the cfg.Downloads values: below and above the least number of workers
StressDownloads == {4, 11}

\* lines 116-119
ConnectionsOf(downloads) ==
    IF downloads < minConnections THEN minConnections ELSE downloads

\* The workers are alike, so the state holds how many are at each place:
\*   top      at the select of lines 141-145
\*   errret   NewRequestWithContext failed: before the errors++ of line 150,
\*            after which the worker returns
\*   errcont  client.Do or io.ReadAll failed: before the errors++ of line 158
\*            or 167, after which the worker continues
\*   ok       the body is read: before the totalBytes += of line 173
\*   exit     returning: before the deferred wg.Done() of line 139
\*   done     returned, wg.Done() called
SAtInit ==
    [top |-> 0, errret |-> 0, errcont |-> 0, ok |-> 0, exit |-> 0, done |-> 0]

\* The history of the call:
\*   requests     the loop iterations that went past the select
\*   sent         the requests handed to client.Do
\*   afterCancel  the requests handed to client.Do while the caller's ctx
\*                was done
\*   failures     the request failures (build, transport or body)
\*   early        the workers that returned while stressCtx was not done
SHistInit ==
    [requests |-> 0, sent |-> 0, afterCancel |-> 0, failures |-> 0, early |-> 0]

StressIdle ==
    /\ spc = "idle" /\ sdownloads = 0 /\ connections = 0 /\ surlBad = FALSE
    /\ sctxDone = FALSE /\ stressDone = FALSE /\ sstarted = 0 /\ sat = SAtInit
    /\ stressBytes = 0 /\ stressErrors = 0 /\ stressWg = 0
    /\ sresult = NoValue /\ shist = SHistInit

\* the call runStress(ctx, cfg), lines 115-136
StressInit ==
    /\ spc = "spawn" /\ sdownloads \in StressDownloads
    /\ connections = ConnectionsOf(sdownloads) /\ surlBad \in BOOLEAN
    /\ sctxDone \in BOOLEAN /\ stressDone = FALSE /\ sstarted = 0
    /\ sat = SAtInit /\ stressBytes = 0 /\ stressErrors = 0 /\ stressWg = 0
    /\ sresult = NoValue /\ shist = SHistInit

\* the caller's ctx is cancelled or times out
SCtxDone ==
    /\ spc \in {"spawn", "read"} /\ ~sctxDone
    /\ sctxDone' = TRUE
    /\ UNCHANGED <<spc, sdownloads, connections, surlBad, stressDone, sstarted,
                   sat, stressBytes, stressErrors, stressWg, sresult, shist>>
    /\ UNCHANGED <<jvars, hvars, bvars, wvars, evars, mvars>>

\* cfg.Timeout has elapsed since stressCtx was made (line 129)
SDeadline ==
    /\ spc \in {"spawn", "read"} /\ ~stressDone
    /\ stressDone' = TRUE
    /\ UNCHANGED <<spc, sdownloads, connections, surlBad, sctxDone, sstarted,
                   sat, stressBytes, stressErrors, stressWg, sresult, shist>>
    /\ UNCHANGED <<jvars, hvars, bvars, wvars, evars, mvars>>

\* lines 178-181: one iteration of the loop: wg.Add(1); go download()
SSpawn ==
    /\ spc = "spawn" /\ sstarted < connections
    /\ sstarted' = sstarted + 1
    /\ stressWg' = stressWg + 1
    /\ sat' = [sat EXCEPT !.top = @ + 1]
    /\ UNCHANGED <<spc, sdownloads, connections, surlBad, sctxDone, stressDone,
                   stressBytes, stressErrors, sresult, shist>>
    /\ UNCHANGED <<jvars, hvars, bvars, wvars, evars, mvars>>

\* lines 141-143: stressCtx is done at the select: the worker returns
SLeave ==
    /\ sat.top > 0 /\ stressDone
    /\ sat' = [sat EXCEPT !.top = @ - 1, !.exit = @ + 1]
    /\ UNCHANGED <<spc, sdownloads, connections, surlBad, sctxDone, stressDone,
                   sstarted, stressBytes, stressErrors, stressWg, sresult,
                   shist>>
    /\ UNCHANGED <<jvars, hvars, bvars, wvars, evars, mvars>>

\* lines 144-148: the select takes default and NewRequestWithContext fails
SBuildFail ==
    /\ sat.top > 0 /\ ~stressDone /\ surlBad
    /\ shist.requests < MaxStressRequests
    /\ sat' = [sat EXCEPT !.top = @ - 1, !.errret = @ + 1]
    /\ shist' = [shist EXCEPT !.requests = @ + 1, !.failures = @ + 1]
    /\ UNCHANGED <<spc, sdownloads, connections, surlBad, sctxDone, stressDone,
                   sstarted, stressBytes, stressErrors, stressWg, sresult>>
    /\ UNCHANGED <<jvars, hvars, bvars, wvars, evars, mvars>>

\* lines 144-165: the select takes default, the request is built and handed
\* to client.Do; client.Do or io.ReadAll fails (as they do once stressCtx is
\* done) or the body is read
SRequest ==
    /\ sat.top > 0 /\ ~stressDone /\ ~surlBad
    /\ shist.requests < MaxStressRequests
    /\ \E failed \in BOOLEAN :
          /\ sat' = IF failed
                    THEN [sat EXCEPT !.top = @ - 1, !.errcont = @ + 1]
                    ELSE [sat EXCEPT !.top = @ - 1, !.ok = @ + 1]
          /\ shist' = [shist EXCEPT
                          !.requests = @ + 1, !.sent = @ + 1,
                          !.afterCancel = IF sctxDone THEN @ + 1 ELSE @,
                          !.failures = IF failed THEN @ + 1 ELSE @]
    /\ UNCHANGED <<spc, sdownloads, connections, surlBad, sctxDone, stressDone,
                   sstarted, stressBytes, stressErrors, stressWg, sresult>>
    /\ UNCHANGED <<jvars, hvars, bvars, wvars, evars, mvars>>

\* lines 149-152: errors++ under the lock, then the worker returns
SErrReturn ==
    /\ sat.errret > 0
    /\ stressErrors' = stressErrors + 1
    /\ sat' = [sat EXCEPT !.errret = @ - 1, !.exit = @ + 1]
    /\ shist' = [shist EXCEPT !.early = IF stressDone THEN @ ELSE @ + 1]
    /\ UNCHANGED <<spc, sdownloads, connections, surlBad, sctxDone, stressDone,
                   sstarted, stressBytes, stressWg, sresult>>
    /\ UNCHANGED <<jvars, hvars, bvars, wvars, evars, mvars>>

\* line 139: the deferred wg.Done() of a worker that returns
SExit ==
    /\ sat.exit > 0
    /\ sat' = [sat EXCEPT !.exit = @ - 1, !.done = @ + 1]
    /\ stressWg' = stressWg - 1
    /\ UNCHANGED <<spc, sdownloads, connections, surlBad, sctxDone, stressDone,
                   sstarted, stressBytes, stressErrors, sresult, shist>>
    /\ UNCHANGED <<jvars, hvars, bvars, wvars, evars, mvars>>

\* lines 157-160 and 166-169: errors++ under the lock, then continue
SErrContinue ==
    /\ sat.errcont > 0
    /\ stressErrors' = stressErrors + 1
    /\ sat' = [sat EXCEPT !.errcont = @ - 1, !.top = @ + 1]
    /\ UNCHANGED <<spc, sdownloads, connections, surlBad, sctxDone, stressDone,
                   sstarted, stressBytes, stressWg, sresult, shist>>
    /\ UNCHANGED <<jvars, hvars, bvars, wvars, evars, mvars>>

\* lines 172-174: totalBytes += int64(len(data)) under the lock, then the
\* next iteration
SAddBytes ==
    /\ sat.ok > 0
    /\ \E b \in ByteSizes : stressBytes' = stressBytes + b
    /\ sat' = [sat EXCEPT !.ok = @ - 1, !.top = @ + 1]
    /\ UNCHANGED <<spc, sdownloads, connections, surlBad, sctxDone, stressDone,
                   sstarted, stressErrors, stressWg, sresult, shist>>
    /\ UNCHANGED <<jvars, hvars, bvars, wvars, evars, mvars>>

\* wg.Wait(), line 183: after the loop of lines 178-181
SWait ==
    /\ spc = "spawn" /\ sstarted = connections /\ stressWg = 0
    /\ spc' = "read"
    /\ UNCHANGED <<sdownloads, connections, surlBad, sctxDone, stressDone,
                   sstarted, sat, stressBytes, stressErrors, stressWg, sresult,
                   shist>>
    /\ UNCHANGED <<jvars, hvars, bvars, wvars, evars, mvars>>

\* lines 184-203: the duration is taken, the totals are read under the lock
SReturn ==
    /\ spc = "read"
    /\ \E d \in SinceStart :
          sresult' = IF stressBytes = 0
                     THEN [kind |-> "error", msg |-> "no data received"]
                     ELSE [kind |-> "result", BytesReceived |-> stressBytes,
                           Duration |-> d,
                           DownloadSpeed |-> MbpsOf(stressBytes * 8, d),
                           PeakSpeed |-> MbpsOf(stressBytes * 8, d),
                           Connections |-> connections,
                           Errors |-> stressErrors]
    /\ spc' = "returned"
    /\ UNCHANGED <<sdownloads, connections, surlBad, sctxDone, stressDone,
                   sstarted, sat, stressBytes, stressErrors, stressWg, shist>>
    /\ UNCHANGED <<jvars, hvars, bvars, wvars, evars, mvars>>

-----------------------------------------------------------------------------
(* cmd/pulsego main: a one-shot run (neither -watch nor -p2p)             *)

\* the values of the -format flag: any other value takes the default case
\* of the switch of line 119, as "text" does
Formats == {"text", "json", "prometheus"}

\* the flags of lines 17-32 that a one-shot run reads
MainFlags == [format : Formats, stress : BOOLEAN, jitter : BOOLEAN,
              bufferbloat : BOOLEAN, simple : BOOLEAN]

\* latencies MeasureLatency may return, download speeds (Mbps) engine.Run
\* may return, the JitterResults of MeasureJitter and the two latencies of
\* MeasureBufferbloat
MainLatencies == {40 * Millisecond, 120 * Millisecond}
MainMbps == {24, 100}
MainJitterResults ==
    {JitterResultOf(10, <<10, 12>>), JitterResultOf(10, <<10>>)}
MainBloatResults ==
    {BufferbloatResultOf(1, 100 * Millisecond + 2), BufferbloatResultOf(1, 2)}

\* the process has not ended.  It ends with
\*   [kind |-> "return"]             main returns (line 161)
\*   [kind |-> "exit", code |-> c]   os.Exit(c) (lines 78, 83)
\*   [kind |-> "panic", line |-> l]  nil pointer dereference at line l
MRunning == [kind |-> "running"]

MainIdle ==
    /\ mpc = "idle" /\ mflags = NoValue /\ latencyResult = NoValue
    /\ mresult = NoValue /\ jitterResult = NoValue /\ bbResult = NoValue
    /\ mhealth = NoValue /\ mout = NoValue /\ mend = MRunning

\* lines 35-54, with -watch unset and -p2p empty
MainInit ==
    /\ mpc = "latency" /\ mflags \in MainFlags /\ latencyResult = NoValue
    /\ mresult = NoValue /\ jitterResult = NoValue /\ bbResult = NoValue
    /\ mhealth = NoValue /\ mout = NoValue /\ mend = MRunning

\* lines 56-59: MeasureLatency gives a result, or nil and an error that is
\* dropped
MLatency ==
    /\ mpc = "latency"
    /\ latencyResult' \in {NoValue} \cup
                          {[kind |-> "result", Latency |-> l] :
                              l \in MainLatencies}
    /\ mpc' = "run"
    /\ UNCHANGED <<mflags, mresult, jitterResult, bbResult, mhealth, mout, mend>>
    /\ UNCHANGED <<jvars, hvars, bvars, wvars, evars, svars>>

\* lines 61-79, engine.Run fails: os.Exit(1)
MRunFail ==
    /\ mpc = "run"
    /\ mpc' = "ended" /\ mend' = [kind |-> "exit", code |-> 1]
    /\ UNCHANGED <<mflags, latencyResult, mresult, jitterResult, bbResult,
                   mhealth, mout>>
    /\ UNCHANGED <<jvars, hvars, bvars, wvars, evars, svars>>

\* lines 61-79, engine.Run gives a Result
MRunOk ==
    /\ mpc = "run"
    /\ mresult' \in {[kind |-> "result", DownloadSpeed |-> m] : m \in MainMbps}
    /\ mpc' = "simple"
    /\ UNCHANGED <<mflags, latencyResult, jitterResult, bbResult, mhealth, mout,
                   mend>>
    /\ UNCHANGED <<jvars, hvars, bvars, wvars, evars, svars>>

\* lines 81-87: -simple prints the speed and exits
MSimple ==
    /\ mpc = "simple"
    /\ IF mflags.simple
       THEN /\ mout' = [kind |-> "simple",
                        DownloadSpeed |-> mresult.DownloadSpeed]
            /\ mpc' = "ended" /\ mend' = [kind |-> "exit", code |-> 0]
       ELSE mpc' = "jitter" /\ UNCHANGED <<mout, mend>>
    /\ UNCHANGED <<mflags, latencyResult, mresult, jitterResult, bbResult,
                   mhealth>>
    /\ UNCHANGED <<jvars, hvars, bvars, wvars, evars, svars>>

\* lines 89-94: MeasureJitter is called unless -jitter=false or -stress; it
\* gives a result, or nil and an error that is dropped
MJitter ==
    /\ mpc = "jitter"
    /\ IF mflags.jitter /\ ~mflags.stress
       THEN jitterResult' \in {NoValue} \cup MainJitterResults
       ELSE UNCHANGED jitterResult
    /\ mpc' = "bloat"
    /\ UNCHANGED <<mflags, latencyResult, mresult, bbResult, mhealth, mout, mend>>
    /\ UNCHANGED <<jvars, hvars, bvars, wvars, evars, svars>>

\* lines 96-101: MeasureBufferbloat is called unless -bufferbloat=false or
\* -stress; it gives a result, or nil and an error that is dropped
MBloat ==
    /\ mpc = "bloat"
    /\ IF mflags.bufferbloat /\ ~mflags.stress
       THEN bbResult' \in {NoValue} \cup MainBloatResults
       ELSE UNCHANGED bbResult
    /\ mpc' = "score"
    /\ UNCHANGED <<mflags, latencyResult, mresult, jitterResult, mhealth, mout,
                   mend>>
    /\ UNCHANGED <<jvars, hvars, bvars, wvars, evars, svars>>

\* lines 103-108
bloatStr == IF bbResult # NoValue THEN bbResult.Severity ELSE "Unknown"

\* lines 110-115
jitterDur == IF jitterResult # NoValue THEN jitterResult.Jitter ELSE 0
jitterLoss ==
    IF jitterResult # NoValue THEN jitterResult.PacketLoss
    ELSE [num |-> 0, den |-> 1]

\* a read of the field of a pointer: it panics when the pointer is nil
NilDeref(ptr) == ptr = NoValue

\* line 117: latencyResult.Latency is read to call CalculateHealthScore
MScore ==
    /\ mpc = "score"
    /\ IF NilDeref(latencyResult)
       THEN /\ mpc' = "ended" /\ mend' = [kind |-> "panic", line |-> 117]
            /\ UNCHANGED mhealth
       ELSE /\ mhealth' = CalculateHealthScore(mresult.DownloadSpeed, jitterDur,
                                               latencyResult.Latency, bloatStr)
            /\ mpc' = "output" /\ UNCHANGED mend
    /\ UNCHANGED <<mflags, latencyResult, mresult, jitterResult, bbResult, mout>>
    /\ UNCHANGED <<jvars, hvars, bvars, wvars, evars, svars>>

\* lines 119-161: the switch on the format.  The json case reads
\* bbResult.BloatDelta to call FormatJSON; the default case reads
\* jitterResult and bbResult only when they are not nil
MOutput ==
    /\ mpc = "output"
    /\ mpc' = "ended"
    /\ IF mflags.format = "json"
       THEN IF NilDeref(bbResult)
            THEN mend' = [kind |-> "panic", line |-> 128] /\ UNCHANGED mout
            ELSE /\ mout' = [kind |-> "json",
                             DownloadSpeed |-> mresult.DownloadSpeed,
                             Latency |-> latencyResult.Latency,
                             Jitter |-> jitterDur,
                             Bloat |-> bbResult.BloatDelta,
                             Loss |-> jitterLoss, Severity |-> bloatStr,
                             Grade |-> mhealth.Grade, Score |-> mhealth.Score]
                 /\ mend' = [kind |-> "return"]
       ELSE IF mflags.format = "prometheus"
       THEN /\ mout' = [kind |-> "prometheus",
                        DownloadSpeed |-> mresult.DownloadSpeed,
                        Latency |-> latencyResult.Latency,
                        Jitter |-> jitterDur,
                        Score |-> mhealth.Score, Grade |-> mhealth.Grade]
            /\ mend' = [kind |-> "return"]
       ELSE /\ mout' = [kind |-> "text",
                        DownloadSpeed |-> mresult.DownloadSpeed,
                        Jitter |-> jitterResult, Bloat |-> bbResult,
                        Health |-> mhealth]
            /\ mend' = [kind |-> "return"]
    /\ UNCHANGED <<mflags, latencyResult, mresult, jitterResult, bbResult,
                   mhealth>>
    /\ UNCHANGED <<jvars, hvars, bvars, wvars, evars, svars>>

-----------------------------------------------------------------------------
(* The specifications                                                      *)

JitterNext ==
    \/ JCtxDone \/ JProbeFail \/ JProbeOk \/ JWaitInterval \/ JWaitCtx
    \/ JFinish
JitterStart ==
    /\ JitterInit /\ HealthIdle /\ BloatIdle /\ WatchIdle /\ EngineIdle
    /\ StressIdle
    /\ MainIdle
SpecJitter == JitterStart /\ [][JitterNext]_vars

HealthNext == HScore
HealthStart ==
    /\ JitterIdle /\ HealthInit /\ BloatIdle /\ WatchIdle /\ EngineIdle
    /\ StressIdle
    /\ MainIdle
SpecHealth == HealthStart /\ [][HealthNext]_vars

WatchNext ==
    \/ WStart \/ WEnter \/ WStop \/ WTickerFire \/ WCtxDone \/ WSignal
    \/ WSelectCtx \/ WSelectSig \/ WSelectStop \/ WSelectTick
    \/ WProbe(LoopLatencies) \/ WMeasure(LoopSuccesses, LoopJitters)
    \/ WCount \/ WAdd
WatchStart ==
    /\ JitterIdle /\ HealthIdle /\ BloatIdle /\ WatchInit /\ EngineIdle
    /\ StressIdle
    /\ MainIdle
SpecWatch == WatchStart /\ [][WatchNext]_vars

TicksNext ==
    \/ WStart \/ WEnter \/ WTickerFire \/ WSelectTick
    \/ WProbe(WatchLatencies) \/ WMeasure(WatchSuccesses, WatchJitters)
    \/ WCount \/ WAdd
TicksStart ==
    /\ JitterIdle /\ HealthIdle /\ BloatIdle /\ TicksInit /\ EngineIdle
    /\ StressIdle
    /\ MainIdle
SpecTicks == TicksStart /\ [][TicksNext]_vars

AlertLogNext ==
    \/ WTickerFire \/ WSelectTick \/ WProbe(LogLatencies)
    \/ WMeasure(LogSuccesses, LogJitters) \/ WCount \/ WAdd
AlertLogStart ==
    /\ JitterIdle /\ HealthIdle /\ BloatIdle /\ AlertLogInit /\ EngineIdle
    /\ StressIdle
    /\ MainIdle
SpecAlertLog == AlertLogStart /\ [][AlertLogNext]_vars

BloatNext ==
    \/ BCtxDone \/ BIdleOk \/ BIdleFail \/ BSpawn \/ BBurstDone \/ BWait
    \/ BLoadOk \/ BLoadFail
BloatStart ==
    /\ JitterIdle /\ HealthIdle /\ BloatInit /\ WatchIdle /\ EngineIdle
    /\ StressIdle
    /\ MainIdle
SpecBloat == BloatStart /\ [][BloatNext]_vars

StandardNext ==
    \/ ECtxDone \/ Request \/ Lock \/ Write \/ Unlock \/ Done
    \/ StdAdd \/ StdSpawn \/ StdWait \/ StdReturn
StandardStart ==
    /\ JitterIdle /\ HealthIdle /\ BloatIdle /\ WatchIdle /\ StandardInit
    /\ StressIdle
    /\ MainIdle
SpecStandard == StandardStart /\ [][StandardNext]_vars

P2PNext ==
    \/ ECtxDone \/ Request \/ Lock \/ Write \/ Unlock \/ Done
    \/ P2PNoTargets \/ P2PAdd \/ P2PSpawn \/ P2PGoWait
    \/ P2PWaiter \/ P2PSelectDone \/ P2PSelectCtx \/ P2PBits \/ P2PReturn
P2PStart ==
    /\ JitterIdle /\ HealthIdle /\ BloatIdle /\ WatchIdle /\ P2PInit
    /\ StressIdle
    /\ MainIdle
SpecP2P == P2PStart /\ [][P2PNext]_vars

\* RunP2P with its goroutines scheduled fairly: a goroutine that can take a
\* step takes it in the end, and a request ends (client.Timeout bounds it);
\* nothing makes the caller's ctx fire
P2PFairness ==
    /\ WF_vars(Request) /\ WF_vars(Lock) /\ WF_vars(Write) /\ WF_vars(Unlock)
    /\ WF_vars(Done) /\ WF_vars(P2PNoTargets) /\ WF_vars(P2PAdd)
    /\ WF_vars(P2PSpawn) /\ WF_vars(P2PGoWait) /\ WF_vars(P2PWaiter)
    /\ WF_vars(P2PSelectDone) /\ WF_vars(P2PSelectCtx) /\ WF_vars(P2PBits)
    /\ WF_vars(P2PReturn)
SpecP2PLive == P2PStart /\ [][P2PNext]_vars /\ P2PFairness

StressNext ==
    \/ SCtxDone \/ SDeadline \/ SSpawn \/ SLeave \/ SBuildFail \/ SRequest
    \/ SErrReturn \/ SExit \/ SErrContinue \/ SAddBytes \/ SWait \/ SReturn
StressStart ==
    /\ JitterIdle /\ HealthIdle /\ BloatIdle /\ WatchIdle /\ EngineIdle
    /\ StressInit
    /\ MainIdle
SpecStress == StressStart /\ [][StressNext]_vars

MainNext ==
    \/ MLatency \/ MRunFail \/ MRunOk \/ MSimple \/ MJitter \/ MBloat
    \/ MScore \/ MOutput
MainStart ==
    /\ JitterIdle /\ HealthIdle /\ BloatIdle /\ WatchIdle /\ EngineIdle
    /\ StressIdle
    /\ MainInit
SpecMain == MainStart /\ [][MainNext]_vars

-----------------------------------------------------------------------------
(* The properties                                                          *)

\* C1: whenever at least 2 probes succeed, the Jitter MeasureJitter returns
\* is the square root of the mean of the squared differences between
\* successive latencies in the order they were captured, over succeeded-1
\* terms.  (Violated: the latencies are sorted at line 56, before the
\* differences are taken.)
C1_JitterInCaptureOrder ==
    (jpc = "done" /\ Len(jcaptured) >= 2)
        => jresult.Jitter = SqrtOfMean(SquaredDiffSum(jcaptured), Len(jcaptured) - 1)

\* C2: no Result returned by a throughput run has BytesReceived = 0; a run
\* whose byte total is 0 returns an error.  (Violated by RunP2P, which has
\* no such check.)
C2_NoZeroByteResult ==
    epc = "returned" => (eret.kind = "result" => eret.BytesReceived # 0)

\* C3: over every sequence of Start and Stop calls the stop channel is closed
\* at most once, and a Watcher that has been stopped is never running again.
\* (Violated: Start sets running again, and the next Stop closes the closed
\* channel.)
C3_StoppedIsTerminal ==
    stopCloses <= 1 /\ (stopCloses >= 1 => ~running)

\* C4: the alert log holds at most 100 entries, and they are the most
\* recently appended alerts in the order they were appended.
C4_AlertLogIsBoundedFifo ==
    Len(alerts) <= maxAlerts /\ alerts = LastN(whist.appended, maxAlerts)

\* C4's case: more than 100 alerts have been appended, so the oldest are gone
C4_Witness ==
    /\ Len(whist.appended) > maxAlerts + 1
    /\ Len(alerts) = maxAlerts
    /\ alerts[1] # whist.appended[1]

\* C5: for each category whose configured threshold is positive, the alert
\* counter equals the number of ticks whose observed value was strictly
\* above the threshold, whenever no tick is in progress; while a tick is
\* in progress the counter is not above that number. A category whose
\* threshold is not positive is switched off: its counter stays 0.
C5_AlertCountersCountBreaches ==
    /\ wcfg.LatencyThreshold > 0 => stats.LatencyAlerts <= whist.over.latency
    /\ wcfg.JitterThreshold > 0 => stats.JitterAlerts <= whist.over.jitter
    /\ wcfg.LossThreshold > 0 => stats.LossAlerts <= whist.over.loss
    /\ wcfg.LatencyThreshold <= 0 => stats.LatencyAlerts = 0
    /\ wcfg.JitterThreshold <= 0 => stats.JitterAlerts = 0
    /\ wcfg.LossThreshold <= 0 => stats.LossAlerts = 0
    /\ activeTicks = 0 =>
          /\ wcfg.LatencyThreshold > 0 =>
                stats.LatencyAlerts = whist.over.latency
          /\ wcfg.JitterThreshold > 0 => stats.JitterAlerts = whist.over.jitter
          /\ wcfg.LossThreshold > 0 => stats.LossAlerts = whist.over.loss

\* C5 as stated, for every threshold: after any sequence of ticks each
\* alert counter equals the number of ticks whose observed value was
\* strictly above the threshold of its category. (Violated: with a
\* threshold of 0 a tick of 40ms is above it and checkAlerts counts nothing.)
C5_CountersCountEveryThreshold ==
    activeTicks = 0 =>
        /\ stats.LatencyAlerts = whist.over.latency
        /\ stats.JitterAlerts = whist.over.jitter
        /\ stats.LossAlerts = whist.over.loss

\* C5's case: ticks above and ticks not above the thresholds have run
C5_Witness ==
    /\ wcfg.LatencyThreshold > 0 /\ wcfg.JitterThreshold > 0
    /\ wcfg.LossThreshold > 0
    /\ activeTicks = 0 /\ stats.Samples = 2 /\ Len(alerts) = 3
    /\ stats.LatencyAlerts = 1 /\ stats.JitterAlerts = 1 /\ stats.LossAlerts = 1
    /\ stats.LatencyMin = wcfg.LatencyThreshold

\* the sum of the bytes of the workers whose download succeeded
BytesOfWorkers ==
    SumSeq([i \in 1..en |-> IF wk[i].oc = "ok" THEN wk[i].bytes ELSE 0])
FailedWorkers == {i \in Workers : wk[i].oc = "err"}

\* C6: in standard mode cfg.Downloads workers are dispatched, each makes one
\* download attempt and exits, and the result is computed after every worker
\* has finished, so that its totals hold every worker's contribution.
C6_StandardWaitsForAllWorkers ==
    /\ emode = "standard" => \A i \in Workers : wk[i].attempts <= 1
    /\ (emode = "standard" /\ epc = "returned") =>
          /\ spawned = en
          /\ \A i \in Workers : wk[i].pc = "done" /\ wk[i].attempts = 1
          /\ eret.kind = "result" =>
                /\ eret.BytesReceived = BytesOfWorkers
                /\ eret.Errors = Cardinality(FailedWorkers)
                /\ eret.Connections = en
          /\ eret.kind = "error" => BytesOfWorkers = 0

\* C6's case: a run of several workers, some failing, has returned a Result
C6_Witness ==
    /\ emode = "standard" /\ epc = "returned" /\ en >= 2
    /\ eret.kind = "result" /\ eret.Errors >= 1 /\ eret.BytesReceived > 0

\* C7: the shared counters are never read or written outside the lock while
\* a worker that can still write them is running.  (Violated by RunP2P when
\* the context fires before the workers have finished.)
C7_CountersUnderLock == ~ehist.racy

\* C8: a tick whose latency probe fails leaves the Stats and the alert log
\* unchanged and does not end the session: the loop is back at its wait.
C8_FailedProbeSkipsTick ==
    [][whist'.failed = whist.failed + 1 =>
          /\ stats' = stats /\ alerts' = alerts
          /\ running' = running /\ stopCloses' = stopCloses
          /\ \E i \in Loops : wpc[i] = "probe" /\ wpc'[i] = "select"]_vars

\* C8's case: a tick has failed and the next tick has run and succeeded
C8_Witness ==
    whist.failed >= 1 /\ whist.lastOk /\ stats.Samples >= 1

\* C9: the ticks of one Watcher run one at a time: a tick never begins
\* while another tick is still running.  (Violated: a Start call made while
\* another is in its loop starts a second loop with a ticker of its own.)
C9_TicksOneAtATime == activeTicks <= 1

\* the bands of C10, each on its own input
C10_Throughput(mbps) ==
    CASE mbps >= 100 -> 30
      [] mbps >= 50 /\ mbps < 100 -> 20
      [] mbps >= 25 /\ mbps < 50 -> 10
      [] OTHER -> 0
C10_Duration(d, excellent, good, moderate) ==
    CASE d < excellent -> 25
      [] d >= excellent /\ d < good -> 15
      [] d >= good /\ d < moderate -> 5
      [] OTHER -> 0
C10_Bufferbloat(b) ==
    CASE b = "Low" -> 20
      [] b = "Medium" -> 10
      [] b \in {"High", "Unknown"} -> 0

\* C10: the score is the sum of the throughput, latency, jitter and
\* bufferbloat contributions, each a function of its own input, and lies in
\* 0..100.
C10_ScoreIsSumOfBands ==
    hpc = "done" =>
        /\ hout.Score =
              C10_Throughput(hin.downloadMbps)
              + C10_Duration(hin.latency, 50 * Millisecond, 100 * Millisecond,
                             200 * Millisecond)
              + C10_Duration(hin.jitter, 5 * Millisecond, 15 * Millisecond,
                             30 * Millisecond)
              + C10_Bufferbloat(hin.bufferbloat)
        /\ hout.Score \in 0..100

\* C10's case: the best input in every band scores 100
C10_Witness ==
    /\ hpc = "done" /\ hout.Score = 100
    /\ hin.downloadMbps >= 100 /\ hin.bufferbloat = "Low"

\* C11: the grade is a function of the score alone: A from 90, B for 75..89,
\* C for 60..74, D for 40..59, F below 40; 60 Mbps, 40ms latency, 3ms jitter
\* and Low bufferbloat score 90 and grade A.
C11_GradeFromScore ==
    hpc = "done" =>
        /\ hout.Grade =
              (CASE hout.Score >= 90 -> "A"
                 [] hout.Score \in 75..89 -> "B"
                 [] hout.Score \in 60..74 -> "C"
                 [] hout.Score \in 40..59 -> "D"
                 [] hout.Score < 40 -> "F")
        /\ (/\ hin.downloadMbps = 60 /\ hin.latency = 40 * Millisecond
            /\ hin.jitter = 3 * Millisecond /\ hin.bufferbloat = "Low")
              => (hout.Score = 90 /\ hout.Grade = "A")

\* C11's case: the scenario's input has been scored, at the edge of grade A
C11_Witness ==
    /\ hpc = "done" /\ hin.downloadMbps = 60 /\ hin.latency = 40 * Millisecond
    /\ hin.jitter = 3 * Millisecond /\ hin.bufferbloat = "Low"
    /\ hout.Score = 90

\* C12: the Severity of every BufferbloatResult is determined by its
\* BloatDelta, the loaded minus the idle latency: Low up to and including
\* 100ms (negative differences too), Medium above 100ms up to and including
\* 300ms, High above 300ms.
C12_SeverityFromDelta ==
    (bpc = "done" /\ bresult.kind = "result") =>
        /\ bresult.BloatDelta = underLoadLatency - idleLatency
        /\ bresult.BloatDelta <= 100 * Millisecond
              => bresult.Severity = "Low"
        /\ (/\ bresult.BloatDelta > 100 * Millisecond
            /\ bresult.BloatDelta <= 300 * Millisecond)
              => bresult.Severity = "Medium"
        /\ bresult.BloatDelta > 300 * Millisecond
              => bresult.Severity = "High"

\* C12's case: a result whose difference is exactly 300ms
C12_Witness ==
    /\ bpc = "done" /\ bresult.kind = "result"
    /\ bresult.BloatDelta = 300 * Millisecond /\ bresult.Severity = "Medium"

\* C13: for every MeasureJitter run that attempted at least one probe, the
\* returned PacketLoss is (attempted - succeeded) / attempted * 100, failed
\* probes being counted as attempted and left out of the latencies.
C13_PacketLossOfAttempted ==
    (jpc = "done" /\ jattempted > 0) =>
        /\ jresult.Samples = Len(jcaptured)
        /\ jresult.PacketLoss.den # 0
        /\ jresult.PacketLoss.num * jattempted
              = (jattempted - Len(jcaptured)) * 100 * jresult.PacketLoss.den

\* C13's case: four probes attempted, one of them failed
C13_Witness ==
    /\ jpc = "done" /\ jattempted = 4 /\ Len(jcaptured) = 3
    /\ jresult.PacketLoss = [num |-> 100, den |-> 4]

\* C14: a JitterResult with fewer than 2 successful samples has Jitter 0 and
\* carries the packet loss of its run.
C14_ShortRunHasZeroJitter ==
    (jpc = "done" /\ jresult.Samples < 2) =>
        /\ jresult.Jitter = 0
        /\ jresult.Samples = Len(jcaptured)
        /\ jresult.PacketLoss =
              [num |-> (jattempted - Len(jcaptured)) * 100, den |-> jattempted]

\* C14's case: one probe of three succeeded
C14_Witness ==
    /\ jpc = "done" /\ jresult.Samples = 1 /\ jattempted = 3
    /\ jresult.Jitter = 0 /\ jresult.PacketLoss = [num |-> 200, den |-> 3]

\* C15: when the wait between two samples is ended by the context, sampling
\* stops: fewer than the requested number of probes are attempted.
\* (Violated: the break of line 42 leaves the select only, and the loop
\* attempts every remaining probe.)
C15_CancelStopsSampling ==
    (jpc = "done" /\ jobserved) => jattempted < jsamples

\* bytes * 8 / 1,000,000 / seconds as a fraction in lowest terms: the bits per
\* nanosecond, times 1000
C16_Speed(bytes, ns) ==
    IF bytes = 0 /\ ns = 0 THEN [num |-> 0, den |-> 0] ELSE
    LET g == GCD(bytes * 8, ns)
        n == (bytes * 8) \div g
        d == ns \div g
        k == GCD(1000, d)
    IN [num |-> n * (1000 \div k), den |-> d \div k]

\* the byte totals the speed is compared on
C16_Totals == {0, 5, 10, 15}

\* C16: the DownloadSpeed of every Result is BytesReceived * 8 / 1,000,000 /
\* Duration in seconds; for a fixed duration it is strictly increasing in the
\* bytes; 10,000,000 bytes in 1.0s are 80 Mbps, and Connections is the number
\* of workers.  (Violated by RunP2P on its ctx path: bits is computed from
\* one unlocked read of totalBytes and BytesReceived from a later one.)
C16_SpeedFromBytes ==
    /\ (epc = "returned" /\ eret.kind = "result") =>
          /\ eret.DownloadSpeed = C16_Speed(eret.BytesReceived, eret.Duration)
          /\ eret.Connections = en
    /\ \A d \in SinceStart, b1, b2 \in C16_Totals :
          b1 < b2 => MbpsOf(b1 * 8, d).num * MbpsOf(b2 * 8, d).den
                       < MbpsOf(b2 * 8, d).num * MbpsOf(b1 * 8, d).den
    /\ MbpsOf(10000000 * 8, Second) = [num |-> 80, den |-> 1]

\* C17: in stress mode a worker leaves its loop only once the deadline of
\* the run itself (cfg.Timeout from its start) has passed, whether or not
\* the caller's ctx is done, and the run returns only after that.
\* (Violated: a request that cannot be built makes the worker return at
\* line 152, before the deadline.)
C17_StressDeadlineIsOwn ==
    /\ sat.exit + sat.done > 0 => stressDone
    /\ spc \in {"read", "returned"} => stressDone

\* C18: once the caller's ctx is done no worker starts a new request.
\* (Violated in stress mode, whose workers look at stressCtx only.)
C18_NoRequestAfterCancel ==
    shist.afterCancel = 0

\* what C19 says of every state of a RunP2P call with targets
C19_Safe ==
    (emode = "p2p" /\ en > 0) =>
        /\ \A i \in Workers : wk[i].attempts <= 1
        /\ epc \in {"bits", "result", "returned"} =>
              /\ spawned = en
              /\ ectxDone \/ \A i \in Workers : wk[i].pc = "done"
        /\ epc = "returned" =>
              /\ eret.kind = "result"
              /\ eret.Connections = en
              /\ eret.Duration >= 1
              /\ eret.BytesReceived <= BytesOfWorkers
              /\ eret.Errors <= Cardinality(FailedWorkers)
              /\ ~ehist.racy =>
                    /\ eret.BytesReceived = BytesOfWorkers
                    /\ eret.Errors = Cardinality(FailedWorkers)

\* C19: RunP2P starts one worker per target and each makes one request; it
\* goes past its wait only when all workers have finished or the ctx is
\* done, whichever comes first, and then returns a Result with the bytes and
\* errors recorded up to then (all of them when no worker was still
\* running), Connections the number of targets and Duration at least one
\* nanosecond; and the call does return.
C19_P2PRacesCompletion ==
    /\ []C19_Safe
    /\ (emode = "p2p" /\ epc = "start") ~> (epc = "returned")

\* C19's case: the ctx fired first and the Result, taken at once, holds a
\* part of what the workers went on to record
C19_Witness ==
    /\ emode = "p2p" /\ epc = "returned" /\ en >= 2 /\ ectxDone
    /\ eret.Duration = 1
    /\ eret.Errors >= 1 /\ eret.Errors < Cardinality(FailedWorkers)
    /\ \E i \in Workers : wk[i].pc # "done"

\* C20: RunP2P with no targets returns its error at once: no worker is
\* started, nothing is waited for, and no Result is produced.
C20_NoTargetsIsRejected ==
    (emode = "p2p" /\ en = 0) =>
        /\ epc \in {"start", "returned"}
        /\ spawned = 0 /\ wg = 0 /\ waiter = "none"
        /\ totalBytes = 0 /\ errors = 0
        /\ epc = "returned" =>
              eret = [kind |-> "error", msg |-> "no targets specified"]

\* C20's case: the call with no targets has returned
C20_Witness ==
    emode = "p2p" /\ en = 0 /\ epc = "returned" /\ eret.kind = "error"

\* C22: in stress mode each request failure (the request cannot be built,
\* client.Do fails, the body cannot be read) adds one to the error counter,
\* and the worker goes on with its next iteration: no worker returns on a
\* failure while the deadline has not passed.  (Violated: a request that
\* cannot be built is counted and the worker returns, line 152.)
C22_StressFailureContinues ==
    /\ stressErrors + sat.errret + sat.errcont = shist.failures
    /\ shist.early = 0

\* C23: MeasureBufferbloat makes one idle probe, then starts exactly 10
\* burst requests, then makes one loaded probe, which does not start before
\* all 10 burst requests have returned; the errors of burst requests do not
\* fail the call; a failed probe gives an error and no result, and after a
\* failed idle probe no burst request is started.
C23_ProbeBurstProbe ==
    /\ burstStarted <= 10 /\ bhist.finished <= burstStarted
    /\ bpc = "probe_idle" => (bhist.probes = 0 /\ burstStarted = 0)
    /\ bpc = "burst" => bhist.probes = 1
    /\ bpc = "probe_load" =>
          /\ bhist.probes = 1
          /\ burstStarted = 10 /\ bhist.finished = 10 /\ burstWg = 0
    /\ bpc = "done" =>
          /\ bresult.kind \in {"result", "error"}
          /\ bresult.kind = "result" =>
                /\ bhist.probes = 2
                /\ burstStarted = 10 /\ bhist.finished = 10
          /\ bresult.kind = "error" =>
                \/ bhist.probes = 1 /\ burstStarted = 0
                \/ /\ bhist.probes = 2
                   /\ burstStarted = 10 /\ bhist.finished = 10

\* C23's case: a result is returned although burst requests failed
C23_Witness ==
    /\ bpc = "done" /\ bresult.kind = "result"
    /\ bhist.finished = 10 /\ bhist.errs >= 1 /\ bhist.probes = 2

\* the least and the greatest element of a sequence that is not empty
C24_Min(s) == CHOOSE x \in {s[i] : i \in 1..Len(s)} :
                  \A i \in 1..Len(s) : x <= s[i]
C24_Max(s) == CHOOSE x \in {s[i] : i \in 1..Len(s)} :
                  \A i \in 1..Len(s) : x >= s[i]

\* C24: JitterMin, JitterMax and JitterSum are the minimum, the maximum and
\* the sum of the jitter values recorded so far (those above 0), whichever
\* tick recorded the first of them.  (Violated: JitterMin is set on the
\* first sample only, so it stays 0 when the first tick had no jitter.)
C24_JitterStatsOfRecorded ==
    IF whist.jitters = <<>>
    THEN stats.JitterMin = 0 /\ stats.JitterMax = 0 /\ stats.JitterSum = 0
    ELSE /\ stats.JitterMin = C24_Min(whist.jitters)
         /\ stats.JitterMax = C24_Max(whist.jitters)
         /\ stats.JitterSum = SumSeq(whist.jitters)

\* C25: once the one Start call made has returned, for a Stop call, a signal
\* or the ctx, the Watcher is not marked running.  (Violated: only Stop clears running; a
\* Start that returns for a signal or for the ctx leaves it set, and a
\* later Stop closes the stop channel.)
C25_ReturnedIsStopped ==
    (wstarts = 1 /\ wpc[1] = "returned") => ~running

\* C26: once Stop has closed the stop channel, or the ctx is done, the
\* loop of the one Start call made begins no tick.  (Violated: with ticker.C ready too, the
\* select may take the tick.)
C26_NoTickAfterStop ==
    [][(wstarts = 1 /\ (stopCloses > 0 \/ wctxDone)) =>
          activeTicks' <= activeTicks]_vars

\* C27: Stats.Samples is the number of ticks whose latency probe succeeded
\* (those still before their updateStats call left out),
\* and the grade counts add up to it.
C27_SamplesAndGrades ==
    /\ stats.Samples + Cardinality({i \in Loops : wpc[i] = "measure"})
          = whist.ok
    /\ activeTicks = 0 => stats.Samples = whist.ok
    /\ stats.GradeCounts.A + stats.GradeCounts.B + stats.GradeCounts.C
         + stats.GradeCounts.D + stats.GradeCounts.F = stats.Samples

\* C27's case: one tick counted and one tick skipped
C27_Witness ==
    /\ whist.ok = 1 /\ whist.failed = 1 /\ stats.Samples = 1
    /\ stats.GradeCounts.D + stats.GradeCounts.F = 1

\* C28: a tick scores with throughput 0 and bufferbloat Unknown, so its
\* score is at most 50 whatever the latency and the jitter, and the grade
\* counts of A, B and C stay 0.
C28_OnlyDAndF ==
    /\ stats.GradeCounts.A = 0 /\ stats.GradeCounts.B = 0
    /\ stats.GradeCounts.C = 0
    /\ \A l \in ScoreLatencies \cup WatchLatencies,
          j \in ScoreJitters \cup WatchJitters :
          /\ CalculateHealthScore(TickThroughput, j, l, "Unknown").Score <= 50
          /\ CalculateHealthScore(TickThroughput, j, l, "Unknown").Grade
                \in {"D", "F"}

\* C28's case: a tick with the best latency and jitter, and a tick with a
\* poor latency
C28_Witness ==
    stats.GradeCounts.D = 1 /\ stats.GradeCounts.F = 1

\* the workers that have updated their counter
C29_Counted == {i \in Workers : wk[i].pc \in {"wrote", "exit", "done"}}

\* C29: in standard mode every worker contributes one outcome.  At any
\* moment errors counts the failed workers that have updated it and
\* totalBytes is the sum of the bytes of the completed downloads that have
\* been added, whatever the other workers did; the data of a failed read is
\* not added.  When the result is computed, errors plus the number of
\* completed downloads is cfg.Downloads.
C29_OneOutcomePerWorker ==
    emode = "standard" =>
       /\ errors = Cardinality({i \in C29_Counted : wk[i].oc = "err"})
       /\ totalBytes =
             SumSeq([i \in 1..en |-> IF i \in C29_Counted /\ wk[i].oc = "ok"
                                     THEN wk[i].bytes ELSE 0])
       /\ epc \in {"check", "returned"} =>
             /\ errors + Cardinality({i \in Workers : wk[i].oc = "ok"}) = en
             /\ totalBytes = BytesOfWorkers
       /\ epc = "returned" /\ eret.kind = "result" =>
             eret.Errors + Cardinality({i \in Workers : wk[i].oc = "ok"}) = en

\* C29's case: three workers, one of them failing in the read of a body of
\* which it had data, and a Result computed from the two others
C29_Witness ==
    /\ emode = "standard" /\ epc = "returned" /\ en = 3
    /\ eret.kind = "result" /\ eret.Errors = 1
    /\ \E i \in Workers : wk[i].oc = "err" /\ wk[i].bytes > 0
    /\ eret.BytesReceived = BytesOfWorkers /\ BytesOfWorkers > 0

\* C21: a one-shot run never ends in a panic: once the throughput run has
\* succeeded, scoring and output are reached without a nil dereference for
\* every format, whatever the latency probe, the jitter sampler and the
\* bufferbloat measurement gave.  (Violated: latencyResult is dereferenced
\* at line 117 and bbResult at line 128 without a nil check.)
C21_NoPanicInOneShot ==
    mend.kind # "panic"

====
